---- MODULE Spec2Model ----
(***************************************************************************)
(* Model of the mastering engine (AudioEngine in                           *)
(* src/services/AnalysisService.ts) and of the handlers of src/App.tsx     *)
(* that drive it.                                                          *)
(*                                                                         *)
(* Numbers.  Every real-valued quantity of the program (gains in dB,       *)
(* seconds of attack/release, ratios, mixes) is held in thousandths, as an *)
(* integer: 0.001 s is 1, ratio 20 is 20000, -0.2 dB is -200.  Frequencies *)
(* are in Hz.  The transport clock (audioContext.currentTime, offsets,     *)
(* startTime, pausedAt) is counted in whole ticks.                         *)
(***************************************************************************)
EXTENDS Integers, Sequences, FiniteSets, TLC

(***************************************************************************)
(* Bounds of the model.                                                    *)
(***************************************************************************)
MaxTime == 2
MaxNoise == 1
MaxEdits == 3
MaxBands == 3

MaxAmount == 50

(* Offsets passed to play and seek, and the outcomes of Math.random. *)
Offsets == 0..(MaxTime - 1)
Noises == 0..MaxNoise

(***************************************************************************)
(* constants.ts                                                            *)
(***************************************************************************)
DEFAULT_EQ_FREQUENCIES ==
  << 30, 60, 120, 240, 500, 1000, 2000, 4000, 8000,
     12000, 16000, 20000, 26000, 32000 >>

ANALYZER_FFT_SIZE == 4096
SMOOTHING_TIME_CONSTANT == 850

DEFAULT_SETTINGS ==
  [masterGain |-> 0,
   eq |-> [i \in 1..Len(DEFAULT_EQ_FREQUENCIES) |->
             [frequency |-> DEFAULT_EQ_FREQUENCIES[i], gain |-> 0]],
   compressor |-> [threshold |-> 0, ratio |-> 0, attack |-> 0, release |-> 0],
   reverb |-> [mix |-> 0, decay |-> 2000],
   saturation |-> 0,
   air |-> 0,
   body |-> 0,
   stereoWidth |-> 0,
   ceiling |-> 0,
   stereoBass |-> 0,
   dynamicBass |-> 0,
   softClip |-> 0]

(* Helper to create EQ curve quickly: gains[i] || 0. *)
createEQ(gains) ==
  [i \in 1..Len(DEFAULT_EQ_FREQUENCIES) |->
     [frequency |-> DEFAULT_EQ_FREQUENCIES[i],
      gain |-> IF i <= Len(gains) THEN gains[i] ELSE 0]]

(* PRESETS['Pop'].settings and PRESETS['Manual'].settings, as values. *)
PopSettings ==
  [DEFAULT_SETTINGS EXCEPT
     !.masterGain = 100,
     !.eq = createEQ(<< 0, 1000, 0, -1000, -2000, -1000, 0, 1000, 2000, 2000,
                        2000, 1000, 0, 0 >>),
     !.compressor = [threshold |-> -15000, ratio |-> 2500,
                     attack |-> 10, release |-> 100],
     !.saturation = 20,
     !.air = 2000,
     !.body = 1000,
     !.stereoWidth = 100,
     !.ceiling = -200,
     !.dynamicBass = 1000,
     !.softClip = 100]

(* PRESETS['Acoustic'].settings: a reverb object of its own. *)
AcousticSettings ==
  [DEFAULT_SETTINGS EXCEPT
     !.masterGain = 0,
     !.eq = createEQ(<< 0, 0, -1000, -1000, 0, 0, 1000, 1000, 2000, 1000,
                        0, 0, 0, 0 >>),
     !.compressor = [threshold |-> -10000, ratio |-> 1500,
                     attack |-> 20, release |-> 200],
     !.reverb = [mix |-> 100, decay |-> 1500],
     !.air = 1000,
     !.stereoWidth = 50,
     !.saturation = 10,
     !.body = 1000]

PresetNames == {"Pop", "Manual"}

(* The presets the App component is driven with below. *)
AppPresetNames == {"Manual", "Acoustic"}

PresetSettings(name) ==
  CASE name = "Pop" -> PopSettings
    [] name = "Acoustic" -> AcousticSettings
    [] name = "Manual" -> DEFAULT_SETTINGS

(***************************************************************************)
(* A ParameterSet as a caller of the engine's public methods can pass it   *)
(* (MasteringSettings of types.ts constrains no value): an open reverb     *)
(* send, a ceiling below 0 dB, a compressor ratio below 1 and an eq array  *)
(* that is not in frequency order.                                         *)
(***************************************************************************)
TweakedSettings ==
  [DEFAULT_SETTINGS EXCEPT
     !.eq = << [frequency |-> 8000, gain |-> 3000],
               [frequency |-> 60, gain |-> -1000],
               [frequency |-> 1000, gain |-> 2000] >>,
     !.compressor = [threshold |-> -20000, ratio |-> 500,
                     attack |-> 5, release |-> 50],
     !.reverb = [mix |-> 300, decay |-> 1500],
     !.stereoWidth = 500,
     !.stereoBass = 2000,
     !.ceiling = -1000]

SettingNames == {"Manual", "Tweaked"}

MasteringSettings(name) ==
  CASE name = "Manual" -> DEFAULT_SETTINGS
    [] name = "Tweaked" -> TweakedSettings

(***************************************************************************)
(* The host audio subsystem (Web Audio), as far as the engine uses it.     *)
(* An AudioParam is its value and the automation events scheduled on it.   *)
(***************************************************************************)
AudioParam(v) == [value |-> v, events |-> << >>]

cancelScheduledValues(p, cancelTime) ==
  [p EXCEPT !.events = SelectSeq(p.events, LAMBDA ev : ev.startTime < cancelTime)]

setTargetAtTime(p, target, startTime_, timeConstant) ==
  [p EXCEPT !.events = Append(p.events,
     [type |-> "setTarget", target |-> target, startTime |-> startTime_,
      timeConstant |-> timeConstant])]

(* The value an AudioParam settles to: the target of the last event scheduled
   on it, and its value when nothing is scheduled. *)
Settled(p) ==
  IF p.events = << >> THEN p.value ELSE p.events[Len(p.events)].target

NullNode == [kind |-> "null"]

createGain ==
  [kind |-> "gain", gain |-> AudioParam(1000)]

createBiquadFilter ==
  [kind |-> "biquad", type |-> "lowpass", frequency |-> AudioParam(350),
   Q |-> AudioParam(1000), gain |-> AudioParam(0)]

createDynamicsCompressor ==
  [kind |-> "compressor", threshold |-> AudioParam(-24000),
   knee |-> AudioParam(30000), ratio |-> AudioParam(12000),
   attack |-> AudioParam(3), release |-> AudioParam(250)]

createWaveShaper ==
  [kind |-> "waveshaper", curve |-> [table |-> "none"], oversample |-> "none"]

createConvolver ==
  [kind |-> "convolver", buffer |-> [length |-> 0]]

createAnalyser ==
  [kind |-> "analyser", fftSize |-> 2048, smoothingTimeConstant |-> 800]

createChannelSplitter(n) == [kind |-> "splitter", channels |-> n]

createChannelMerger(n) == [kind |-> "merger", channels |-> n]

createBufferSource ==
  [kind |-> "source", buffer |-> [id |-> "none"], started |-> FALSE,
   stopped |-> FALSE, offset |-> 0]

(***************************************************************************)
(* AudioEngine: the curve tables.  A table is a function of its drive (or  *)
(* amount) alone; it is held as the parameters that determine its 4096     *)
(* entries.                                                                *)
(***************************************************************************)
makeDistortionCurve(amount) ==
  [table |-> "distortion", n_samples |-> 4096, drive |-> amount * 10]

makeSoftClipCurve(amount) ==
  [table |-> "softClip", n_samples |-> 4096, amount |-> amount]

(***************************************************************************)
(* Settings objects.  A MasteringSettings object holds references to its   *)
(* eq array, its compressor and its reverb, and the array to its bands, so *)
(* that two ParameterSets can share a sub-object.  A reference names who   *)
(* created the object (a library constant or a handler), in which run of a *)
(* handler, and which part of the ParameterSet it is.                      *)
(***************************************************************************)
Ref(owner, gen, path, index) == << owner, gen, path, index >>

SettingsRef(owner, gen) == Ref(owner, gen, "settings", 0)

(* The objects a ParameterSet is made of, from its root. *)
Parts(h, root) ==
  { root, h[root].eq, h[root].compressor, h[root].reverb }
  \cup { h[h[root].eq].items[i] : i \in 1..Len(h[h[root].eq].items) }

(* JSON.stringify: the values under a root, references followed. *)
stringify(h, root) ==
  [h[root] EXCEPT
     !.eq = [i \in 1..Len(h[h[root].eq].items) |-> h[h[h[root].eq].items[i]]],
     !.compressor = h[h[root].compressor],
     !.reverb = h[h[root].reverb]]

(* JSON.parse: new objects for a value, none of them shared. *)
parse(value, owner, gen) ==
  LET band(i) == Ref(owner, gen, "eq[]", i - 1)
  IN  (SettingsRef(owner, gen) :>
         [value EXCEPT !.eq = Ref(owner, gen, "eq", 0),
                       !.compressor = Ref(owner, gen, "compressor", 0),
                       !.reverb = Ref(owner, gen, "reverb", 0)])
      @@ (Ref(owner, gen, "eq", 0) :>
            [items |-> [i \in 1..Len(value.eq) |-> band(i)]])
      @@ (Ref(owner, gen, "compressor", 0) :> value.compressor)
      @@ (Ref(owner, gen, "reverb", 0) :> value.reverb)
      @@ [r \in {band(i) : i \in 1..Len(value.eq)} |-> value.eq[r[4] + 1]]

(* The module constants of constants.ts as objects.  PRESETS['Pop'].settings
   spreads DEFAULT_SETTINGS and has an eq and a compressor of its own: its
   reverb is the reverb object of DEFAULT_SETTINGS.  PRESETS['Manual'].settings
   is DEFAULT_SETTINGS itself. *)
PRESETS(name) ==
  CASE name = "Pop" -> [name |-> "Pop", settings |-> SettingsRef("Pop", 0)]
    [] name = "Acoustic" ->
         [name |-> "Acoustic", settings |-> SettingsRef("Acoustic", 0)]
    [] name = "Manual" ->
         [name |-> "Manual", settings |-> SettingsRef("DEFAULT_SETTINGS", 0)]

Library ==
  LET pop == parse(PopSettings, "Pop", 0)
      own == DOMAIN pop \ {Ref("Pop", 0, "reverb", 0)}
  IN  parse(DEFAULT_SETTINGS, "DEFAULT_SETTINGS", 0)
      @@ parse(AcousticSettings, "Acoustic", 0)
      @@ [r \in own |->
            IF r = SettingsRef("Pop", 0)
            THEN [pop[r] EXCEPT !.reverb = Ref("DEFAULT_SETTINGS", 0, "reverb", 0)]
            ELSE pop[r]]

LibraryRoots == { SettingsRef("DEFAULT_SETTINGS", 0) } \cup
                { PRESETS(name).settings : name \in PresetNames \cup AppPresetNames }

(* What the program can still reach: the library and the roots given. *)
Collect(h, roots) ==
  LET live == UNION { Parts(h, root) : root \in LibraryRoots \cup roots }
  IN  [r \in live |-> h[r]]

(***************************************************************************)
(* State.  One variable per field of the AudioEngine singleton, plus what  *)
(* the host holds for it: the connections of the live audio graph and the  *)
(* mid/side nodes that play keeps in local constants only.                 *)
(***************************************************************************)
VARIABLES
  audioContext,          \* [id, state, currentTime, sampleRate, resuming]; id "none" is null
  audioBuffer,           \* the decoded buffer; id "none" is null
  sourceNode,            \* the AudioBufferSourceNode of the last play, or NullNode
  nodes,                 \* the node-valued private fields (gainNode ... softClipNode)
  eqNodes,               \* the BiquadFilterNode list
  impulseResponseCache,  \* the cached impulse buffer; id "none" is null
  lastDecayValue,
  startTime,
  pausedAt,
  isPlaying,
  msNodes,               \* splitter, merger, sumL ... outR_Side of the last play
  connections,           \* the connect() calls in effect between the nodes above
  staleConnections,      \* those in effect between nodes of earlier builds
  pendingLoads,          \* loadFile calls waiting for decodeAudioData
  heap,                  \* the settings objects: the library's and the live ones
  liveSettings,          \* App's settings state: a reference into heap
  allocated,             \* the settings handlers run so far
  audioState,            \* App's audioState: [isLoaded, isPlaying, currentTime, duration]
  pendingToggles,        \* togglePlay calls waiting for resumeContext, with what each saw
  uploadSettings,        \* the ParameterSet the handleFileUpload in flight has seen
  last                   \* the operation that made the last step, and how it ended

vars ==
  << audioContext, audioBuffer, sourceNode, nodes, eqNodes, impulseResponseCache,
     lastDecayValue, startTime, pausedAt, isPlaying, msNodes, connections,
     staleConnections, pendingLoads, heap, liveSettings, allocated, audioState,
     pendingToggles, uploadSettings, last >>

(* The state of the App component next to its settings. *)
ui == << audioState, pendingToggles, uploadSettings >>

NullBuffer == [id |-> "none"]

NodeFields ==
  { "gainNode", "compressorNode", "analyzerNode", "reverbNode", "reverbToneNode",
    "wetGainNode", "dryGainNode", "saturationNode", "airNode", "bodyNode",
    "limiterNode", "msSideGainNode", "stereoBassNode", "dynamicBassNode",
    "softClipNode" }

MSLocals ==
  { "splitter", "merger", "sumL", "sumR", "diffL", "diffR", "midChannel",
    "sideChannel", "outL_Mid", "outL_Side", "outR_Mid", "outR_Side" }

(* The engine and its host graph as one value, so that a method that calls
   another (play calls setupGraph, seek calls pause and play) is the
   composition of the two.  rebuilds counts the setupGraph bodies run since
   the handler began, and steps lists, in the order of the statements, what
   the handler has done to the host since it began. *)
World ==
  [audioContext |-> audioContext, audioBuffer |-> audioBuffer,
   sourceNode |-> sourceNode, nodes |-> nodes, eqNodes |-> eqNodes,
   impulseResponseCache |-> impulseResponseCache,
   lastDecayValue |-> lastDecayValue, startTime |-> startTime,
   pausedAt |-> pausedAt, isPlaying |-> isPlaying, msNodes |-> msNodes,
   connections |-> connections, staleConnections |-> staleConnections,
   rebuilds |-> 0, steps |-> << >>]

Becomes(w) ==
  /\ audioContext' = w.audioContext
  /\ audioBuffer' = w.audioBuffer
  /\ sourceNode' = w.sourceNode
  /\ nodes' = w.nodes
  /\ eqNodes' = w.eqNodes
  /\ impulseResponseCache' = w.impulseResponseCache
  /\ lastDecayValue' = w.lastDecayValue
  /\ startTime' = w.startTime
  /\ pausedAt' = w.pausedAt
  /\ isPlaying' = w.isPlaying
  /\ msNodes' = w.msNodes
  /\ connections' = w.connections
  /\ staleConnections' = w.staleConnections

Init ==
  /\ audioContext = [id |-> "none", state |-> "none", currentTime |-> 0,
                     sampleRate |-> 0, resuming |-> FALSE]
  /\ audioBuffer = NullBuffer
  /\ sourceNode = NullNode
  /\ nodes = [f \in NodeFields |-> NullNode]
  /\ eqNodes = << >>
  /\ impulseResponseCache = NullBuffer
  /\ lastDecayValue = -1000
  /\ startTime = 0
  /\ pausedAt = 0
  /\ isPlaying = FALSE
  /\ msNodes = [f \in MSLocals |-> NullNode]
  /\ connections = {}
  /\ staleConnections = {}
  /\ pendingLoads = {}
  /\ heap = Library
  /\ liveSettings = SettingsRef("DEFAULT_SETTINGS", 0)
  /\ allocated = 0
  /\ audioState = [isLoaded |-> FALSE, isPlaying |-> FALSE, currentTime |-> 0,
                   duration |-> 0]
  /\ pendingToggles = << >>
  /\ uploadSettings = DEFAULT_SETTINGS
  /\ last = [op |-> "constructor", arg |-> 0, settings |-> "none",
             outcome |-> "returned", rebuilds |-> 0, result |-> NullBuffer]

(***************************************************************************)
(* Helpers.                                                                *)
(***************************************************************************)
Abs(x) == IF x < 0 THEN -x ELSE x

Max_second(a, b) == b

Max(a, b) == IF a >= b THEN a ELSE b

IsNull(node) == node.kind = "null"

(* [...eq].sort((a, b) => a.frequency - b.frequency): a stable sort. *)
InsertBand(sorted, band) ==
  LET k == Cardinality({i \in 1..Len(sorted) : sorted[i].frequency <= band.frequency})
  IN  SubSeq(sorted, 1, k) \o << band >> \o SubSeq(sorted, k + 1, Len(sorted))

RECURSIVE SortPrefix(_, _)
SortPrefix(eq, n) ==
  IF n = 0 THEN << >> ELSE InsertBand(SortPrefix(eq, n - 1), eq[n])

SortByFrequency_unsorted(eq) == eq

SortByFrequency(eq) == SortPrefix(eq, Len(eq))

(* A node of a graph is named by the field or constant that holds it, the
   i-th filter of eqNodes by its place.  a.connect(b, output, input) is the
   tuple << a, b, output, input >>. *)
EqNodeNames ==
  << "eqNodes[0]", "eqNodes[1]", "eqNodes[2]", "eqNodes[3]", "eqNodes[4]",
     "eqNodes[5]", "eqNodes[6]", "eqNodes[7]", "eqNodes[8]", "eqNodes[9]",
     "eqNodes[10]", "eqNodes[11]", "eqNodes[12]", "eqNodes[13]" >>

EqNode(i) == EqNodeNames[i]

connect(a, b, output, input) == << a, b, output, input >>

(***************************************************************************)
(* AudioEngine.createImpulseResponse.  noise stands for the values that    *)
(* Math.random returns during the call; synthesized tells a buffer made by *)
(* this call from the cached object handed out again.                      *)
(***************************************************************************)
createImpulseResponse_exactDecay(w, ctx, duration, decay, reverse, noise) ==
  LET impulse == [id |-> "impulse", numberOfChannels |-> 2,
                  length |-> ctx.sampleRate * duration,
                  sampleRate |-> ctx.sampleRate, decay |-> decay,
                  reverse |-> reverse, noise |-> noise]
  IN  IF /\ ctx.id = w.audioContext.id
         /\ w.impulseResponseCache.id # "none"
         /\ w.lastDecayValue = decay
      THEN [buffer |-> w.impulseResponseCache, synthesized |-> FALSE, world |-> w]
      ELSE [buffer |-> impulse, synthesized |-> TRUE,
            world |-> IF ctx.id = w.audioContext.id
                      THEN [w EXCEPT !.impulseResponseCache = impulse,
                                     !.lastDecayValue = decay]
                      ELSE w]

createImpulseResponse(w, ctx, duration, decay, reverse, noise) ==
  IF /\ ctx.id = w.audioContext.id
     /\ w.impulseResponseCache.id # "none"
     /\ Abs(w.lastDecayValue - decay) < 10
  THEN [buffer |-> w.impulseResponseCache, synthesized |-> FALSE, world |-> w]
  ELSE
    LET sampleRate == ctx.sampleRate
        length == sampleRate * duration
        impulse == [id |-> "impulse", numberOfChannels |-> 2, length |-> length,
                    sampleRate |-> sampleRate, decay |-> decay,
                    reverse |-> reverse, noise |-> noise]
    IN  [buffer |-> impulse, synthesized |-> TRUE,
         world |-> IF ctx.id = w.audioContext.id
                   THEN [w EXCEPT !.impulseResponseCache = impulse,
                                  !.lastDecayValue = decay]
                   ELSE w]

(***************************************************************************)
(* AudioEngine.updateSettings                                              *)
(***************************************************************************)
Ramp_direct(p, target, now) == [p EXCEPT !.value = target]

Ramp(p, target, now) ==
  setTargetAtTime(cancelScheduledValues(p, now), target, now, 50)

updateSettings(w, settings) ==
  IF w.audioContext.id = "none" THEN w
  ELSE
    LET now == w.audioContext.currentTime
        sortedEqSettings == SortByFrequency(settings.eq)
        both == ~IsNull(w.nodes["wetGainNode"]) /\ ~IsNull(w.nodes["dryGainNode"])
        upd(f, n) ==
          CASE f = "gainNode" ->
                 [n EXCEPT !.gain = Ramp(@, 1000 + settings.masterGain, now)]
            [] f = "compressorNode" ->
                 [n EXCEPT
                    !.threshold = Ramp(@, settings.compressor.threshold, now),
                    !.ratio = Ramp(@, Max(1000, settings.compressor.ratio), now),
                    !.attack = Ramp(@, settings.compressor.attack, now),
                    !.release = Ramp(@, settings.compressor.release, now)]
            [] f = "saturationNode" ->
                 [n EXCEPT !.curve = makeDistortionCurve(settings.saturation)]
            [] f = "softClipNode" ->
                 [n EXCEPT !.curve = makeSoftClipCurve(settings.softClip)]
            [] f = "airNode" -> [n EXCEPT !.gain = Ramp(@, settings.air, now)]
            [] f = "bodyNode" -> [n EXCEPT !.gain = Ramp(@, settings.body, now)]
            [] f = "dynamicBassNode" ->
                 [n EXCEPT !.gain = Ramp(@, settings.dynamicBass, now)]
            [] f = "limiterNode" ->
                 [n EXCEPT !.threshold = Ramp(@, settings.ceiling, now)]
            [] f = "msSideGainNode" ->
                 [n EXCEPT !.gain = Ramp(@, 1000 + settings.stereoWidth, now)]
            [] f = "stereoBassNode" ->
                 [n EXCEPT !.gain = Ramp(@, settings.stereoBass, now)]
            [] f = "wetGainNode" ->
                 IF both THEN [n EXCEPT !.gain = Ramp(@, settings.reverb.mix, now)]
                 ELSE n
            [] f = "dryGainNode" ->
                 IF both
                 THEN [n EXCEPT !.gain = Ramp(@, 1000 - settings.reverb.mix, now)]
                 ELSE n
            [] OTHER -> n
    IN  [w EXCEPT
           !.nodes = [f \in NodeFields |->
                        IF IsNull(w.nodes[f]) THEN w.nodes[f] ELSE upd(f, w.nodes[f])],
           !.eqNodes = [index \in 1..Len(w.eqNodes) |->
                          IF index <= Len(sortedEqSettings)
                          THEN [w.eqNodes[index] EXCEPT
                                  !.gain = Ramp(@, sortedEqSettings[index].gain, now)]
                          ELSE w.eqNodes[index]],
           !.steps = IF \A f \in NodeFields : IsNull(w.nodes[f])
                     THEN @ ELSE Append(@, "setTargetAtTime")]

(***************************************************************************)
(* AudioEngine.setupGraph                                                  *)
(***************************************************************************)
(* Mutant of the disconnect that opens setupGraph: no node is disconnected. *)
Disconnected_nothing(w) == {}

(* Disconnect everything first: the nodes whose disconnect() setupGraph
   calls, the source and every stage held in a field. *)
Disconnected(w) ==
  (IF IsNull(w.sourceNode) THEN {} ELSE {"sourceNode"})
  \cup {f \in NodeFields : ~IsNull(w.nodes[f])}
  \cup {EqNode(i) : i \in 1..Len(w.eqNodes)}

setupGraph(w, settings, noise) ==
  IF w.audioContext.id = "none" \/ w.audioBuffer.id = "none" THEN w
  ELSE
    LET disconnected == Disconnected(w)
        kept == {c \in w.connections : c[1] \notin disconnected}
        \* Create Nodes
        ir == createImpulseResponse(w, w.audioContext, 3, settings.reverb.decay,
                                    FALSE, noise)
        biquad(type, frequency, gain) ==
          [createBiquadFilter EXCEPT !.type = type,
                                     !.frequency.value = frequency,
                                     !.gain.value = gain]
        created ==
          [f \in NodeFields |->
             CASE f = "gainNode" -> createGain
               [] f = "compressorNode" -> createDynamicsCompressor
               [] f = "analyzerNode" ->
                    [createAnalyser EXCEPT
                       !.fftSize = ANALYZER_FFT_SIZE,
                       !.smoothingTimeConstant = SMOOTHING_TIME_CONSTANT]
               [] f = "saturationNode" ->
                    [createWaveShaper EXCEPT
                       !.curve = makeDistortionCurve(settings.saturation),
                       !.oversample = "4x"]
               [] f = "softClipNode" ->
                    [createWaveShaper EXCEPT
                       !.curve = makeSoftClipCurve(settings.softClip),
                       !.oversample = "4x"]
               [] f = "airNode" -> biquad("highshelf", 12000, settings.air)
               [] f = "bodyNode" ->
                    [biquad("peaking", 300, settings.body) EXCEPT !.Q.value = 700]
               [] f = "dynamicBassNode" ->
                    [biquad("peaking", 65, settings.dynamicBass) EXCEPT
                       !.Q.value = 1200]
               [] f = "limiterNode" ->
                    [createDynamicsCompressor EXCEPT
                       !.threshold.value = settings.ceiling,
                       !.ratio.value = 20000,
                       !.knee.value = 0,
                       !.attack.value = 1,
                       !.release.value = 100]
               [] f = "msSideGainNode" ->
                    [createGain EXCEPT !.gain.value = 1000 + settings.stereoWidth]
               [] f = "stereoBassNode" ->
                    biquad("lowshelf", 120, settings.stereoBass)
               [] f = "reverbNode" -> [createConvolver EXCEPT !.buffer = ir.buffer]
               [] f = "reverbToneNode" ->
                    [createBiquadFilter EXCEPT !.type = "lowpass",
                                               !.frequency.value = 5000]
               [] f = "wetGainNode" -> createGain
               [] f = "dryGainNode" -> createGain]
        sortedEq == SortByFrequency(settings.eq)
        filters ==
          [index \in 1..Len(sortedEq) |->
             [biquad(IF index = 1 THEN "lowshelf"
                     ELSE IF index = Len(sortedEq) THEN "highshelf"
                     ELSE "peaking",
                     sortedEq[index].frequency, sortedEq[index].gain)
              EXCEPT !.Q.value = 1000]]
    IN  updateSettings(
          [ir.world EXCEPT
             \* the fields below now hold new nodes: what is still connected
             \* is connected between nodes of the build they replace
             !.connections = {},
             !.staleConnections = @ \cup kept,
             !.nodes = created,
             !.eqNodes = filters,
             !.rebuilds = @ + 1,
             !.steps = @ \o << "disconnect", "create" >>],
          settings)

(***************************************************************************)
(* AudioEngine.play                                                        *)
(***************************************************************************)
LiveChain(nEq) ==
  LET lastEq == IF nEq = 0 THEN "sourceNode" ELSE EqNode(nEq)
  IN
  \* 1. Corrective EQ first
  (IF nEq = 0 THEN {} ELSE {connect("sourceNode", EqNode(1), 0, 0)})
  \cup {connect(EqNode(i), EqNode(i + 1), 0, 0) : i \in 1..(nEq - 1)}
  \* 2. Tone Shaping, 3. Color, 4. Dynamics
  \cup { connect(lastEq, "dynamicBassNode", 0, 0),
         connect("dynamicBassNode", "bodyNode", 0, 0),
         connect("bodyNode", "saturationNode", 0, 0),
         connect("saturationNode", "compressorNode", 0, 0),
  \* 5. Spatial (Reverb Send)
         connect("compressorNode", "dryGainNode", 0, 0),
         connect("compressorNode", "reverbToneNode", 0, 0),
         connect("reverbToneNode", "reverbNode", 0, 0),
         connect("reverbNode", "wetGainNode", 0, 0),
  \* 6. Recombine & Polish (Air)
         connect("dryGainNode", "airNode", 0, 0),
         connect("wetGainNode", "airNode", 0, 0),
  \* 7. M/S Processing
         connect("airNode", "splitter", 0, 0),
         connect("splitter", "sumL", 0, 0),
         connect("splitter", "sumR", 1, 0),
         connect("splitter", "diffL", 0, 0),
         connect("splitter", "diffR", 1, 0),
         connect("sumL", "midChannel", 0, 0),
         connect("sumR", "midChannel", 0, 0),
         connect("diffL", "sideChannel", 0, 0),
         connect("diffR", "sideChannel", 0, 0),
         connect("sideChannel", "stereoBassNode", 0, 0),
         connect("stereoBassNode", "msSideGainNode", 0, 0),
         connect("midChannel", "outL_Mid", 0, 0),
         connect("msSideGainNode", "outL_Side", 0, 0),
         connect("midChannel", "outR_Mid", 0, 0),
         connect("msSideGainNode", "outR_Side", 0, 0),
         connect("outL_Mid", "merger", 0, 0),
         connect("outL_Side", "merger", 0, 0),
         connect("outR_Mid", "merger", 0, 1),
         connect("outR_Side", "merger", 0, 1),
  \* 8. Final Gain & Limiting
         connect("merger", "gainNode", 0, 0),
         connect("gainNode", "softClipNode", 0, 0),
         connect("softClipNode", "limiterNode", 0, 0),
         connect("limiterNode", "analyzerNode", 0, 0),
         connect("analyzerNode", "destination", 0, 0) }

(* Mutant of the mid/side nodes: the right channel enters the side sum with
   the sign of the left. *)
MSCreated_sameSign ==
  [f \in MSLocals |->
     CASE f = "splitter" -> createChannelSplitter(2)
       [] f = "merger" -> createChannelMerger(2)
       [] f \in {"sumL", "sumR", "diffL", "diffR"} ->
            [createGain EXCEPT !.gain.value = 500]
       [] f \in {"midChannel", "sideChannel"} -> createGain
       [] f \in {"outL_Mid", "outL_Side", "outR_Mid"} ->
            [createGain EXCEPT !.gain.value = 1000]
       [] f = "outR_Side" -> [createGain EXCEPT !.gain.value = -1000]]

MSCreated ==
  [f \in MSLocals |->
     CASE f = "splitter" -> createChannelSplitter(2)
       [] f = "merger" -> createChannelMerger(2)
       [] f \in {"sumL", "sumR", "diffL"} -> [createGain EXCEPT !.gain.value = 500]
       [] f = "diffR" -> [createGain EXCEPT !.gain.value = -500]
       [] f \in {"midChannel", "sideChannel"} -> createGain
       [] f \in {"outL_Mid", "outL_Side", "outR_Mid"} ->
            [createGain EXCEPT !.gain.value = 1000]
       [] f = "outR_Side" -> [createGain EXCEPT !.gain.value = -1000]]

(* Mutants of play: the start reference taken without the offset; the guard
   without its buffer test. *)
play_forgetsOffset(w, offset, settings, noise) ==
  IF w.audioContext.id = "none" \/ w.audioBuffer.id = "none" THEN w
  ELSE
    LET g == setupGraph(w, settings, noise)
    IN  [g EXCEPT
           !.sourceNode = [createBufferSource EXCEPT
                             !.buffer = g.audioBuffer,
                             !.started = TRUE,
                             !.offset = offset],
           !.msNodes = MSCreated,
           !.connections = @ \cup LiveChain(Len(g.eqNodes)),
           !.startTime = g.audioContext.currentTime,
           !.pausedAt = offset,
           !.isPlaying = TRUE]

play_withoutBufferTest(w, offset, settings, noise) ==
  IF w.audioContext.id = "none" THEN w
  ELSE
    LET g == setupGraph(w, settings, noise)
    IN  [g EXCEPT
           !.sourceNode = [createBufferSource EXCEPT
                             !.buffer = g.audioBuffer,
                             !.started = TRUE,
                             !.offset = offset],
           !.msNodes = MSCreated,
           !.connections = @ \cup LiveChain(Len(g.eqNodes)),
           !.startTime = g.audioContext.currentTime - offset,
           !.pausedAt = offset,
           !.isPlaying = TRUE]

play(w, offset, settings, noise) ==
  IF w.audioContext.id = "none" \/ w.audioBuffer.id = "none" THEN w
  ELSE
    LET resumed ==
          IF w.audioContext.state = "suspended"
          THEN [w EXCEPT !.audioContext.resuming = TRUE]
          ELSE w
        g == setupGraph(resumed, settings, noise)
    IN  [g EXCEPT
           !.sourceNode = [createBufferSource EXCEPT
                             !.buffer = g.audioBuffer,
                             !.started = TRUE,
                             !.offset = offset],
           !.msNodes = MSCreated,
           !.connections = @ \cup LiveChain(Len(g.eqNodes)),
           !.startTime = g.audioContext.currentTime - offset,
           !.pausedAt = offset,
           !.isPlaying = TRUE,
           !.steps = @ \o << "connect", "start" >>]

(***************************************************************************)
(* AudioEngine.pause, seek, getCurrentTime, getDuration                    *)
(***************************************************************************)
(* Mutant of pause: the isPlaying test dropped. *)
pause_whenNotPlaying(w) ==
  IF ~IsNull(w.sourceNode)
  THEN [w EXCEPT
          !.sourceNode.stopped = TRUE,
          !.pausedAt = w.audioContext.currentTime - w.startTime,
          !.isPlaying = FALSE]
  ELSE w

pause(w) ==
  IF ~IsNull(w.sourceNode) /\ w.isPlaying
  THEN [w EXCEPT
          !.sourceNode.stopped = TRUE,
          !.pausedAt = IF w.audioContext.id # "none"
                       THEN w.audioContext.currentTime - w.startTime
                       ELSE @,
          !.isPlaying = FALSE,
          !.steps = Append(@, "stop")]
  ELSE w

(* Mutant of seek: while playing, the position stored and play not called. *)
seek_withoutRestart(w, time, settings, noise) ==
  IF w.isPlaying
  THEN [w EXCEPT !.sourceNode.stopped = TRUE, !.pausedAt = time, !.isPlaying = FALSE]
  ELSE [w EXCEPT !.pausedAt = time]

seek(w, time, settings, noise) ==
  IF w.isPlaying
  THEN play(pause(w), time, settings, noise)
  ELSE [w EXCEPT !.pausedAt = time]

(* Mutant of getCurrentTime: the stored position whatever the state. *)
getCurrentTime_stored(w) == w.pausedAt

getCurrentTime(w) ==
  IF w.audioContext.id = "none" \/ ~w.isPlaying
  THEN w.pausedAt
  ELSE w.audioContext.currentTime - w.startTime

getDuration(w) ==
  IF w.audioBuffer.id # "none" THEN w.audioBuffer.duration ELSE 0

(***************************************************************************)
(* AudioEngine.initContext, loadFile                                       *)
(***************************************************************************)
HardwareSampleRate == 48000

Files == {"mono.mp3", "stereo.mp3"}

(* decodeAudioData: the decoded buffer has the file's channels and duration
   (in ticks of one second) at the context's sample rate. *)
decodeAudioData(file, ctx) ==
  LET duration == IF file = "mono.mp3" THEN 2 ELSE 3
  IN  [id |-> file,
       numberOfChannels |-> IF file = "mono.mp3" THEN 1 ELSE 2,
       sampleRate |-> ctx.sampleRate,
       duration |-> duration,
       length |-> duration * ctx.sampleRate]

(* new AudioContext(): the host starts it running, or suspended until a
   resume() it grants. *)
initContext(w, state) ==
  IF w.audioContext.id = "none"
  THEN [w EXCEPT !.audioContext =
          [id |-> "live", state |-> state, currentTime |-> 0,
           sampleRate |-> HardwareSampleRate, resuming |-> FALSE]]
  ELSE w

(***************************************************************************)
(* AudioEngine.renderOffline                                               *)
(***************************************************************************)
OfflineChain(nEq) ==
  LET lastEq == IF nEq = 0 THEN "source" ELSE EqNode(nEq)
  IN
  (IF nEq = 0 THEN {} ELSE {connect("source", EqNode(1), 0, 0)})
  \cup {connect(EqNode(i), EqNode(i + 1), 0, 0) : i \in 1..(nEq - 1)}
  \cup { connect(lastEq, "dynamicBassNode", 0, 0),
         connect("dynamicBassNode", "bodyNode", 0, 0),
         connect("bodyNode", "saturation", 0, 0),
         connect("saturation", "compressor", 0, 0),
         connect("compressor", "dryGain", 0, 0),
         connect("compressor", "reverbTone", 0, 0),
         connect("reverbTone", "reverb", 0, 0),
         connect("reverb", "wetGain", 0, 0),
         connect("dryGain", "airNode", 0, 0),
         connect("wetGain", "airNode", 0, 0),
         connect("airNode", "splitter", 0, 0),
         connect("splitter", "sumL", 0, 0),
         connect("splitter", "sumR", 1, 0),
         connect("splitter", "diffL", 0, 0),
         connect("splitter", "diffR", 1, 0),
         connect("sumL", "midChannel", 0, 0),
         connect("sumR", "midChannel", 0, 0),
         connect("diffL", "sideChannel", 0, 0),
         connect("diffR", "sideChannel", 0, 0),
         connect("sideChannel", "stereoBassNode", 0, 0),
         connect("stereoBassNode", "msSideGain", 0, 0),
         connect("midChannel", "outL_Mid", 0, 0),
         connect("msSideGain", "outL_Side", 0, 0),
         connect("midChannel", "outR_Mid", 0, 0),
         connect("msSideGain", "outR_Side", 0, 0),
         connect("outL_Mid", "merger", 0, 0),
         connect("outL_Side", "merger", 0, 0),
         connect("outR_Mid", "merger", 0, 1),
         connect("outR_Side", "merger", 0, 1),
         connect("merger", "masterGain", 0, 0),
         connect("masterGain", "softClip", 0, 0),
         connect("softClip", "limiter", 0, 0),
         connect("limiter", "destination", 0, 0) }

OfflineNodes ==
  { "bodyNode", "dynamicBassNode", "compressor", "saturation", "airNode",
    "masterGain", "softClip", "limiter", "splitter", "merger", "sumL", "sumR",
    "diffL", "diffR", "midChannel", "sideChannel", "msSideGain",
    "stereoBassNode", "outL_Mid", "outL_Side", "outR_Mid", "outR_Side",
    "reverb", "reverbTone", "wetGain", "dryGain" }

(* Mutant of the offline context: sized in seconds, not in frames. *)
OfflineAudioContext_inSeconds(buffer) ==
  [id |-> "offline", numberOfChannels |-> 2, length |-> buffer.duration,
   sampleRate |-> buffer.sampleRate]

(* new OfflineAudioContext(2, this.audioBuffer.length, this.audioBuffer.sampleRate) *)
OfflineAudioContext(buffer) ==
  [id |-> "offline", numberOfChannels |-> 2, length |-> buffer.length,
   sampleRate |-> buffer.sampleRate]

(* The graph renderOffline wires, up to source.start(0). *)
OfflineGraph(w, settings, noise) ==
  LET offlineCtx == OfflineAudioContext(w.audioBuffer)
      biquad(type, frequency, gain) ==
        [createBiquadFilter EXCEPT !.type = type,
                                   !.frequency.value = frequency,
                                   !.gain.value = gain]
      gain(v) == [createGain EXCEPT !.gain.value = v]
      sortedEq == SortByFrequency(settings.eq)
      ir == createImpulseResponse(w, offlineCtx, 3, settings.reverb.decay,
                                  FALSE, noise)
  IN
  [id |-> "offline",
   offlineCtx |-> offlineCtx,
   source |-> [createBufferSource EXCEPT !.buffer = w.audioBuffer,
                                         !.started = TRUE],
   eqNodes |->
     [index \in 1..Len(sortedEq) |->
        [biquad(IF index = 1 THEN "lowshelf"
                ELSE IF index = Len(sortedEq) THEN "highshelf"
                ELSE "peaking",
                sortedEq[index].frequency, sortedEq[index].gain)
         EXCEPT !.Q.value = 1000]],
   nodes |->
     [f \in OfflineNodes |->
        CASE f = "bodyNode" ->
               [biquad("peaking", 300, settings.body) EXCEPT !.Q.value = 700]
          [] f = "dynamicBassNode" ->
               [biquad("peaking", 65, settings.dynamicBass) EXCEPT !.Q.value = 1200]
          [] f = "compressor" ->
               [createDynamicsCompressor EXCEPT
                  !.threshold.value = settings.compressor.threshold,
                  !.ratio.value = Max(1000, settings.compressor.ratio),
                  !.attack.value = settings.compressor.attack,
                  !.release.value = settings.compressor.release]
          [] f = "saturation" ->
               [createWaveShaper EXCEPT
                  !.curve = makeDistortionCurve(settings.saturation),
                  !.oversample = "none"]
          [] f = "airNode" -> biquad("highshelf", 12000, settings.air)
          [] f = "masterGain" -> gain(1000 + settings.masterGain)
          [] f = "softClip" ->
               [createWaveShaper EXCEPT
                  !.curve = makeSoftClipCurve(settings.softClip),
                  !.oversample = "none"]
          [] f = "limiter" ->
               [createDynamicsCompressor EXCEPT
                  !.threshold.value = settings.ceiling,
                  !.ratio.value = 20000,
                  !.attack.value = 1,
                  !.release.value = 100]
          [] f = "splitter" -> createChannelSplitter(2)
          [] f = "merger" -> createChannelMerger(2)
          [] f \in {"sumL", "sumR", "diffL"} -> gain(500)
          [] f = "diffR" -> gain(-500)
          [] f \in {"midChannel", "sideChannel"} -> createGain
          [] f = "msSideGain" -> gain(1000 + settings.stereoWidth)
          [] f = "stereoBassNode" -> biquad("lowshelf", 120, settings.stereoBass)
          [] f \in {"outL_Mid", "outL_Side", "outR_Mid"} -> gain(1000)
          [] f = "outR_Side" -> gain(-1000)
          [] f = "reverb" -> [createConvolver EXCEPT !.buffer = ir.buffer]
          [] f = "reverbTone" ->
               [createBiquadFilter EXCEPT !.type = "lowpass",
                                          !.frequency.value = 5000]
          [] f = "wetGain" -> gain(settings.reverb.mix)
          [] f = "dryGain" -> gain(1000 - settings.reverb.mix)],
   connections |-> OfflineChain(Len(sortedEq))]

(* offlineCtx.startRendering(): a buffer of the context's channel count,
   length and sample rate. *)
startRendering(graph) ==
  [id |-> "rendered",
   numberOfChannels |-> graph.offlineCtx.numberOfChannels,
   length |-> graph.offlineCtx.length,
   sampleRate |-> graph.offlineCtx.sampleRate]

(* renderOffline: "threw" for throw new Error("No Audio"). *)
renderOffline(w, settings, noise) ==
  IF w.audioBuffer.id = "none"
  THEN [outcome |-> "threw", error |-> "No Audio", world |-> w]
  ELSE LET graph == OfflineGraph(w, settings, noise)
       IN  [outcome |-> "returned", graph |-> graph,
            buffer |-> startRendering(graph),
            world |-> createImpulseResponse(w, graph.offlineCtx, 3,
                                            settings.reverb.decay, FALSE,
                                            noise).world]

(***************************************************************************)
(* Steps.  Each call of a public method of the engine is one step; the two *)
(* awaits of loadFile split it in two.  last records the call.             *)
(***************************************************************************)
Called(op, arg, settings, outcome, rebuilds, result) ==
  [op |-> op, arg |-> arg, settings |-> settings, outcome |-> outcome,
   rebuilds |-> rebuilds, result |-> result]

(* The host's clock: currentTime advances while the context runs. *)
Tick ==
  /\ audioContext.state = "running"
  /\ audioContext.currentTime < MaxTime
  /\ audioContext' = [audioContext EXCEPT !.currentTime = @ + 1]
  /\ last' = Called("tick", 0, "none", "returned", 0, NullBuffer)
  /\ UNCHANGED << audioBuffer, sourceNode, nodes, eqNodes, impulseResponseCache,
                  lastDecayValue, startTime, pausedAt, isPlaying, msNodes,
                  connections, staleConnections, pendingLoads,
                  heap, liveSettings, allocated, ui >>

(* The host grants the resume() that play asked for. *)
Resumed ==
  /\ audioContext.state = "suspended"
  /\ audioContext.resuming
  /\ audioContext' = [audioContext EXCEPT !.state = "running", !.resuming = FALSE]
  /\ last' = Called("resumed", 0, "none", "returned", 0, NullBuffer)
  /\ UNCHANGED << audioBuffer, sourceNode, nodes, eqNodes, impulseResponseCache,
                  lastDecayValue, startTime, pausedAt, isPlaying, msNodes,
                  connections, staleConnections, pendingLoads,
                  heap, liveSettings, allocated, ui >>

(* loadFile up to its first await. *)
LoadFileBegin(file, state) ==
  /\ pendingLoads = {}
  /\ Becomes(initContext(World, state))
  /\ pendingLoads' = pendingLoads \cup {file}
  /\ UNCHANGED << heap, liveSettings, allocated, ui >>
  /\ last' = Called("loadFileBegin", 0, "none", "pending", 0, NullBuffer)

(* decodeAudioData resolves: this.audioBuffer is assigned. *)
LoadFileDone(file) ==
  /\ file \in pendingLoads
  /\ Becomes([World EXCEPT !.audioBuffer = decodeAudioData(file, audioContext)])
  /\ pendingLoads' = pendingLoads \ {file}
  /\ UNCHANGED << heap, liveSettings, allocated, ui >>
  /\ last' = Called("loadFile", 0, "none", "returned", 0, audioBuffer')

(* decodeAudioData rejects: loadFile throws and assigns nothing. *)
LoadFileFail(file) ==
  /\ file \in pendingLoads
  /\ pendingLoads' = pendingLoads \ {file}
  /\ last' = Called("loadFile", 0, "none", "threw", 0, NullBuffer)
  /\ UNCHANGED << audioContext, audioBuffer, sourceNode, nodes, eqNodes,
                  impulseResponseCache, lastDecayValue, startTime, pausedAt,
                  isPlaying, msNodes, connections, staleConnections,
                  heap, liveSettings, allocated, ui >>

SetupGraph(name, noise) ==
  LET w == setupGraph(World, MasteringSettings(name), noise)
  IN  /\ Becomes(w)
      /\ last' = Called("setupGraph", 0, name, "returned", w.rebuilds,
                        [id |-> "steps", steps |-> w.steps])
      /\ UNCHANGED << pendingLoads, heap, liveSettings, allocated, ui >>

UpdateSettings(name) ==
  LET w == updateSettings(World, MasteringSettings(name))
  IN  /\ Becomes(w)
      /\ last' = Called("updateSettings", 0, name, "returned", w.rebuilds, NullBuffer)
      /\ UNCHANGED << pendingLoads, heap, liveSettings, allocated, ui >>

Play(offset, name, noise) ==
  LET w == play(World, offset, MasteringSettings(name), noise)
  IN  /\ Becomes(w)
      /\ last' = Called("play", offset, name, "returned", w.rebuilds,
                        [id |-> "steps", steps |-> w.steps])
      /\ UNCHANGED << pendingLoads, heap, liveSettings, allocated, ui >>

Pause ==
  LET w == pause(World)
  IN  /\ Becomes(w)
      /\ last' = Called("pause", 0, "none", "returned", w.rebuilds, NullBuffer)
      /\ UNCHANGED << pendingLoads, heap, liveSettings, allocated, ui >>

Seek(time, name, noise) ==
  LET w == seek(World, time, MasteringSettings(name), noise)
  IN  /\ Becomes(w)
      /\ last' = Called("seek", time, name, "returned", w.rebuilds,
                        [id |-> "steps", steps |-> w.steps])
      /\ UNCHANGED << pendingLoads, heap, liveSettings, allocated, ui >>

(* The promise renderOffline returns: rejected with the error, or resolved
   with the rendered buffer; graph is what the render ran. *)
RenderOffline(name, noise) ==
  LET r == renderOffline(World, MasteringSettings(name), noise)
  IN  /\ Becomes(r.world)
      /\ last' = Called("renderOffline", 0, name, r.outcome, 0,
                        IF r.outcome = "returned"
                        THEN [id |-> "rendered", graph |-> r.graph,
                              buffer |-> r.buffer]
                        ELSE [id |-> "none", error |-> r.error])
      /\ UNCHANGED << pendingLoads, heap, liveSettings, allocated, ui >>

(* One impulse request, as setupGraph makes it against the live context and
   renderOffline against the context it has just created. *)
Decays == {1000, 1005, 1012}

ImpulseContexts == {"live", "offline"}

CreateImpulseResponse(ctx, decay, noise) ==
  LET context == IF ctx = "live" THEN audioContext
                 ELSE [id |-> "offline", sampleRate |-> HardwareSampleRate]
      r == createImpulseResponse(World, context, 3, decay, FALSE, noise)
  IN  /\ audioContext.id # "none"
      /\ Becomes(r.world)
      /\ last' = Called("createImpulseResponse", decay, "none", "returned", 0,
                        [id |-> "request", ctx |-> ctx, buffer |-> r.buffer,
                         synthesized |-> r.synthesized])
      /\ UNCHANGED << pendingLoads, heap, liveSettings, allocated, ui >>

(* The engine's methods given a ParameterSet with any eq array of up to
   MaxBands bands of different frequencies, in any order; the gain of a band
   tells its index in the array. *)
EqFrequencies == {60, 1000, 8000}

EqArrays ==
  { [k \in 1..Len(fs) |-> [frequency |-> fs[k], gain |-> 1000 * k]] :
      fs \in { f \in UNION { [1..n -> EqFrequencies] : n \in 0..MaxBands } :
                 \A i, j \in 1..Len(f) : f[i] = f[j] => i = j } }

WithEq(eq) == [DEFAULT_SETTINGS EXCEPT !.eq = eq]

SetupGraphWith(eq) ==
  LET w == setupGraph(World, WithEq(eq), 0)
  IN  /\ Becomes(w)
      /\ last' = Called("setupGraph", 0, "eq", "returned", w.rebuilds,
                        [id |-> "eq", eq |-> eq])
      /\ UNCHANGED << pendingLoads, heap, liveSettings, allocated, ui >>

UpdateSettingsWith(eq) ==
  LET w == updateSettings(World, WithEq(eq))
  IN  /\ Becomes(w)
      /\ last' = Called("updateSettings", 0, "eq", "returned", w.rebuilds,
                        [id |-> "eq", eq |-> eq])
      /\ UNCHANGED << pendingLoads, heap, liveSettings, allocated, ui >>

RenderOfflineWith(eq) ==
  LET r == renderOffline(World, WithEq(eq), 0)
  IN  /\ Becomes(r.world)
      /\ last' = Called("renderOffline", 0, "eq", r.outcome, 0,
                        IF r.outcome = "returned"
                        THEN [id |-> "rendered", eq |-> eq, graph |-> r.graph,
                              buffer |-> r.buffer]
                        ELSE [id |-> "none", eq |-> eq, error |-> r.error])
      /\ UNCHANGED << pendingLoads, heap, liveSettings, allocated, ui >>

(***************************************************************************)
(* App.tsx: the handlers that change the live ParameterSet.  Each returns  *)
(* the heap with the objects it has created and the new value of the       *)
(* settings state.                                                         *)
(***************************************************************************)
App == [heap |-> heap, settings |-> liveSettings, allocated |-> allocated]

(* updateSetting(key, value) for a key that holds a number. *)
updateSetting(a, key, value) ==
  LET gen == a.allocated + 1
      newSettings == SettingsRef("updateSetting", gen)
  IN  [heap |-> (newSettings :> [a.heap[a.settings] EXCEPT ![key] = value])
                @@ a.heap,
       settings |-> newSettings,
       allocated |-> gen]

(* updateSetting('compressor', { ...settings.compressor, [field]: v }). *)
updateCompressor(a, field, v) ==
  LET gen == a.allocated + 1
      newSettings == SettingsRef("updateSetting", gen)
      value == Ref("updateSetting", gen, "compressor", 0)
  IN  [heap |-> (value :> [a.heap[a.heap[a.settings].compressor]
                             EXCEPT ![field] = v])
                @@ (newSettings :> [a.heap[a.settings] EXCEPT !.compressor = value])
                @@ a.heap,
       settings |-> newSettings,
       allocated |-> gen]

handleEQChange(a, index, gain) ==
  LET gen == a.allocated + 1
      newSettings == SettingsRef("handleEQChange", gen)
      prevEq == a.heap[a.heap[a.settings].eq].items
      band == Ref("handleEQChange", gen, "eq[]", index)
      newEq == Ref("handleEQChange", gen, "eq", 0)
      changed == index + 1 \in 1..Len(prevEq)
  IN  [heap |-> (IF changed
                 THEN band :> [a.heap[prevEq[index + 1]] EXCEPT !.gain = gain]
                 ELSE << >>)
                @@ (newEq :> [items |-> [i \in 1..Len(prevEq) |->
                                           IF i = index + 1 THEN band
                                           ELSE prevEq[i]]])
                @@ (newSettings :> [a.heap[a.settings] EXCEPT !.eq = newEq])
                @@ a.heap,
       settings |-> newSettings,
       allocated |-> gen]

applyPreset_withoutCopy(a, name) ==
  [heap |-> a.heap, settings |-> PRESETS(name).settings,
   allocated |-> a.allocated + 1]

applyPreset(a, name) ==
  LET preset == PRESETS(name)
      gen == a.allocated + 1
      \* Deep copy to ensure we don't mutate the constant
      newSettings == parse(stringify(a.heap, preset.settings), "applyPreset", gen)
  IN  [heap |-> newSettings @@ a.heap,
       settings |-> SettingsRef("applyPreset", gen),
       allocated |-> gen]

(* A handler has run: the settings state is set and the engine is told. *)
Handled(a, op, arg, name) ==
  /\ allocated < MaxEdits
  /\ heap' = Collect(a.heap, {a.settings})
  /\ liveSettings' = a.settings
  /\ allocated' = a.allocated
  /\ Becomes(updateSettings(World, stringify(a.heap, a.settings)))
  /\ last' = Called(op, arg, name, "returned", 0, NullBuffer)
  /\ UNCHANGED << pendingLoads, ui >>

NumberKeys == {"masterGain"}

KnobValues == {500}

Ratios == {500}

UpdateSetting(key, value) ==
  Handled(updateSetting(App, key, value), "updateSetting", value, key)

UpdateCompressor(field, value) ==
  Handled(updateCompressor(App, field, value), "updateSetting", value, "compressor")

EqIndexes == {0, Len(DEFAULT_EQ_FREQUENCIES) - 1}

EqGains == {3000}

HandleEQChange(index, gain) ==
  Handled(handleEQChange(App, index, gain), "handleEQChange", index, "eq")

ApplyPreset(name) ==
  Handled(applyPreset(App, name), "applyPreset", 0, name)

(* handleExportWAV renders the live ParameterSet; an error of the render is
   caught and logged. *)
HandleExportWAV ==
  LET r == renderOffline(World, stringify(heap, liveSettings), 0)
  IN  /\ Becomes(r.world)
      /\ last' = Called("handleExportWAV", 0, "live", r.outcome, 0,
                        IF r.outcome = "returned"
                        THEN [id |-> "rendered", graph |-> r.graph,
                              buffer |-> r.buffer]
                        ELSE [id |-> "none", error |-> r.error])
      /\ UNCHANGED << pendingLoads, heap, liveSettings, allocated, ui >>

(***************************************************************************)
(* App.tsx: the transport handlers.  A handler runs to its first await in  *)
(* one step; what follows the await is a step of its own, taken when the   *)
(* host settles the promise, and sees the audioState and settings of the   *)
(* render in which the handler was called.                                 *)
(***************************************************************************)
MaxToggles == 2

AudioState(loaded, playing, time, duration) ==
  [isLoaded |-> loaded, isPlaying |-> playing, currentTime |-> time,
   duration |-> duration]

(* handleFileUpload to its await: audioEngine.pause(), then loadFile to its
   own await.  Every file offered is an MP3. *)
HandleFileUploadBegin(file, state) ==
  /\ pendingLoads = {}
  /\ Becomes(initContext(pause(World), state))
  /\ pendingLoads' = pendingLoads \cup {file}
  /\ uploadSettings' = stringify(heap, liveSettings)
  /\ UNCHANGED << heap, liveSettings, allocated, audioState, pendingToggles >>
  /\ last' = Called("handleFileUploadBegin", 0, "live", "pending", 0, NullBuffer)

(* The decode resolves: the buffer is assigned, audioState is set and the
   graph is built with the settings the handler has seen. *)
HandleFileUploadDone(file) ==
  LET buffer == decodeAudioData(file, audioContext)
      w == setupGraph([World EXCEPT !.audioBuffer = buffer], uploadSettings, 0)
  IN  /\ file \in pendingLoads
      /\ Becomes(w)
      /\ pendingLoads' = pendingLoads \ {file}
      /\ audioState' = AudioState(TRUE, FALSE, 0, buffer.duration)
      /\ uploadSettings' = DEFAULT_SETTINGS
      /\ UNCHANGED << heap, liveSettings, allocated, pendingToggles >>
      /\ last' = Called("handleFileUpload", 0, "live", "returned", w.rebuilds,
                        buffer)

(* The decode rejects: the handler ends with the error; nothing after the
   await runs. *)
HandleFileUploadFail(file) ==
  /\ file \in pendingLoads
  /\ pendingLoads' = pendingLoads \ {file}
  /\ uploadSettings' = DEFAULT_SETTINGS
  /\ last' = Called("handleFileUpload", 0, "live", "threw", 0, NullBuffer)
  /\ UNCHANGED << audioContext, audioBuffer, sourceNode, nodes, eqNodes,
                  impulseResponseCache, lastDecayValue, startTime, pausedAt,
                  isPlaying, msNodes, connections, staleConnections,
                  heap, liveSettings, allocated, audioState, pendingToggles >>

(* togglePlay.  The button is disabled until a file is loaded.  With the
   context running resumeContext awaits nothing the host has to grant, and
   play follows in the same turn; with the context suspended the handler
   asks for the resume and waits. *)
TogglePlay ==
  /\ audioState.isLoaded
  /\ IF audioState.isPlaying
     THEN /\ Becomes(pause(World))
          /\ audioState' = [audioState EXCEPT !.isPlaying = FALSE]
          /\ last' = Called("togglePlay", 0, "live", "returned", 0, NullBuffer)
          /\ UNCHANGED pendingToggles
     ELSE IF audioContext.state = "suspended"
     THEN /\ Len(pendingToggles) < MaxToggles
          /\ Becomes([World EXCEPT !.audioContext.resuming = TRUE])
          /\ pendingToggles' =
               Append(pendingToggles,
                      [currentTime |-> audioState.currentTime,
                       settings |-> stringify(heap, liveSettings)])
          /\ last' = Called("togglePlay", audioState.currentTime, "live",
                            "pending", 0, NullBuffer)
          /\ UNCHANGED audioState
     ELSE LET w == play(World, audioState.currentTime,
                        stringify(heap, liveSettings), 0)
          IN  /\ Becomes(w)
              /\ audioState' = [audioState EXCEPT !.isPlaying = TRUE]
              /\ last' = Called("togglePlay", audioState.currentTime, "live",
                                "returned", w.rebuilds,
                                [id |-> "steps", steps |-> w.steps])
              /\ UNCHANGED pendingToggles
  /\ UNCHANGED << pendingLoads, heap, liveSettings, allocated, uploadSettings >>

(* The togglePlay calls that wait go on, in the order they were made. *)
RECURSIVE PlayAll(_, _)
PlayAll(w, toggles) ==
  IF toggles = << >> THEN w
  ELSE PlayAll(play(w, Head(toggles).currentTime, Head(toggles).settings, 0),
               Tail(toggles))

(* The host grants the resume: the context runs, the promise of every
   resume() asked for is resolved in the same turn, and every waiting
   togglePlay goes on to play before any other handler runs. *)
TogglePlayResumed ==
  /\ pendingToggles # << >>
  /\ audioContext.state = "suspended"
  /\ audioContext.resuming
  /\ LET running == [World EXCEPT !.audioContext.state = "running",
                                  !.audioContext.resuming = FALSE]
         w == PlayAll(running, pendingToggles)
     IN  /\ Becomes(w)
         /\ last' = Called("togglePlay", Head(pendingToggles).currentTime,
                           "live", "returned", w.rebuilds,
                           [id |-> "steps", steps |-> w.steps])
  /\ pendingToggles' = << >>
  /\ audioState' = [audioState EXCEPT !.isPlaying = TRUE]
  /\ UNCHANGED << pendingLoads, heap, liveSettings, allocated, uploadSettings >>

(* handleSeek: the slider is disabled until a file is loaded. *)
HandleSeek(time) ==
  LET w == seek(World, time, stringify(heap, liveSettings), 0)
  IN  /\ audioState.isLoaded
      /\ Becomes(w)
      /\ audioState' = [audioState EXCEPT !.currentTime = time]
      /\ last' = Called("handleSeek", time, "live", "returned", w.rebuilds,
                        [id |-> "steps", steps |-> w.steps])
      /\ UNCHANGED << pendingLoads, heap, liveSettings, allocated,
                      pendingToggles, uploadSettings >>

(* The animation-frame effect: while audioState.isPlaying the displayed time
   follows the engine's. *)
UpdateTime ==
  /\ audioState.isPlaying
  /\ audioState.currentTime # getCurrentTime(World)
  /\ audioState' = [audioState EXCEPT !.currentTime = getCurrentTime(World)]
  /\ last' = Called("updateTime", 0, "none", "returned", 0, NullBuffer)
  /\ UNCHANGED << audioContext, audioBuffer, sourceNode, nodes, eqNodes,
                  impulseResponseCache, lastDecayValue, startTime, pausedAt,
                  isPlaying, msNodes, connections, staleConnections,
                  pendingLoads, heap, liveSettings, allocated,
                  pendingToggles, uploadSettings >>

(***************************************************************************)
(* generateAiSettings.  Numbers are thousandths, as everywhere.  Math.log10 *)
(* and Math.pow are the host's, given here to three decimals at the values *)
(* the inputs drawn below produce.                                         *)
(***************************************************************************)
Min(a, b) == IF a <= b THEN a ELSE b

clamp_unbounded(val, min, max) == val

clamp(val, min, max) == Min(max, Max(min, val))

(* Rounding to the nearest multiple of unit, halves away from 0. *)
Round(x, unit) ==
  IF x >= 0 THEN ((2 * x + unit) \div (2 * unit)) * unit
  ELSE -(((2 * (-x) + unit) \div (2 * unit)) * unit)

toFixed_truncating(x, digits) ==
  LET unit == IF digits = 1 THEN 100 ELSE 10
  IN  IF x >= 0 THEN (x \div unit) * unit ELSE -(((-x) \div unit) * unit)

(* parseFloat(x.toFixed(digits)) of x in thousandths, digits 1 or 2. *)
toFixed(x, digits) == Round(x, IF digits = 1 THEN 100 ELSE 10)

(* 20 * Math.log10(rms) of an rms in thousandths. *)
TwentyLog10(rms) ==
  CASE rms = 270 -> -11373
    [] rms = 260 -> -11701
    [] rms = 230 -> -12765
    [] rms = 200 -> -13979
    [] rms = 100 -> -20000
    [] rms = 50 -> -26021

(* Math.pow(10, db / 20) of a level in thousandths of a dB. *)
Pow10(db) ==
  CASE db = 0 -> 1000
    [] db = 2000 -> 1259
    [] db = 2301 -> 1303
    [] db = 3365 -> 1473
    [] db = 4000 -> 1585

targetCurve ==
  << 950, 900, 850, 800, 750, 700, 650, 600, 550, 500, 450, 400, 350, 300 >>

estimatedLUFS(analysis) == TwentyLog10(analysis.rms) - 600

targetLUFS_fixed(analysis) == -10000

targetLUFS(analysis) ==
  LET first == IF estimatedLUFS(analysis) > -12000 THEN estimatedLUFS(analysis)
               ELSE -10000
  IN  IF estimatedLUFS(analysis) < -24000 THEN -13000 ELSE first

gainNeeded(analysis) == targetLUFS(analysis) - estimatedLUFS(analysis)

(* 1. SPECTRAL CURVE MATCHING: the gain given to band i (from 0), or the
   band's own gain when spectralBalance has no entry for it. *)
eqGain(analysis, band, i) ==
  IF i + 1 > Len(analysis.spectralBalance) THEN band.gain
  ELSE
    LET actual == analysis.spectralBalance[i + 1]
        target == IF i + 1 <= Len(targetCurve) /\ targetCurve[i + 1] # 0
                  THEN targetCurve[i + 1] ELSE 500
        delta == actual - target
        gain == delta * (-12)
        clamped == IF band.frequency < 100 THEN clamp(gain, -3000, 3000)
                   ELSE IF band.frequency > 8000 THEN clamp(gain, -4000, 4000)
                   ELSE clamp(gain, -3000, 3000)
    IN  toFixed(clamped, 1)

LogLine(tag, text, values) == [tag |-> tag, text |-> text, values |-> values]

lowEndLog_always(analysis) ==
  << LogLine("LOW END", "Bass weak. Adding Dynamic Punch.", << >>) >>

lowEndLog(analysis) ==
  IF analysis.lowEnergy < 400
  THEN << LogLine("LOW END", "Bass weak. Adding Dynamic Punch.", << >>) >>
  ELSE << >>

(* The result for the analysis, on a deep copy of DEFAULT_SETTINGS whose
   value is defaults. *)
generateAiSettings(analysis, defaults) ==
  LET dynamicRange == analysis.crestFactor
      spectralFlux == analysis.spectralFlux
      linearGainDb == Min(gainNeeded(analysis), 4000)
      saturatorGainDb == Max(0, gainNeeded(analysis) - linearGainDb)
      linearRatio == Pow10(linearGainDb)
      \* in millionths: saturatorGainDb * 0.08, and 0.1 more on a high crest
      softClipAmount ==
        clamp(saturatorGainDb * 80, 0, 400000)
        + (IF dynamicRange > 4000 THEN 100000 ELSE 0)
      loud == gainNeeded(analysis) > 500
      settings ==
        [defaults EXCEPT
           !.eq = [i \in 1..Len(defaults.eq) |->
                     [defaults.eq[i] EXCEPT
                        !.gain = eqGain(analysis, defaults.eq[i], i - 1)]],
           !.stereoWidth = IF analysis.midEnergy * 1000 > analysis.lowEnergy * 1500
                           THEN 50 ELSE 150,
           !.stereoBass = IF analysis.lowEnergy > 600 THEN 2000 ELSE @,
           !.dynamicBass = IF analysis.lowEnergy < 400 THEN 3000 ELSE @,
           !.saturation = IF spectralFlux < 12000 THEN 40 ELSE 10,
           !.body = IF spectralFlux < 12000 THEN 1500 ELSE 0,
           !.masterGain = IF loud THEN clamp(linearRatio - 1000, 0, 800) ELSE 0,
           !.ceiling = IF loud THEN -300 ELSE @,
           !.softClip = IF loud THEN Round(softClipAmount, 10000) \div 1000
                        ELSE 50,
           !.compressor = IF loud /\ gainNeeded(analysis) > 3000
                          THEN [threshold |-> -16000, ratio |-> 2000,
                                attack |-> 10, release |-> 150]
                          ELSE @]
      logs ==
        << LogLine("ANALYSIS COMPLETE", "Fusion V4.1 Gated Scan.", << >>),
           LogLine("MUSICAL CONTEXT", "key scale @ bpm BPM", << >>),
           LogLine("SIGNAL PATH", "Input Gated LUFS | Dyn Range",
                   << toFixed(estimatedLUFS(analysis), 1),
                      toFixed(dynamicRange, 1) >>),
           LogLine("EQ", "Balanced freq response.", << >>) >>
        \o lowEndLog(analysis)
        \o (IF spectralFlux < 12000
            THEN << LogLine("COLOR",
                            "Low spectral movement. Adding harmonic excitement.",
                            << >>) >>
            ELSE << >>)
        \o (IF loud /\ dynamicRange > 4000
            THEN << LogLine("DYNAMICS",
                            "High crest factor detected. Taming peaks with Soft Clip.",
                            << >>) >>
            ELSE << >>)
        \o (IF loud
            THEN << LogLine("LOUDNESS", "Gain. Density via Clipper.",
                            << toFixed(linearGainDb, 1),
                               toFixed(saturatorGainDb, 1) >>) >>
            ELSE << LogLine("LOUDNESS", "Track is optimal.",
                            << toFixed(Abs(estimatedLUFS(analysis)), 1) >>) >>)
  IN  [settings |-> settings, logs |-> logs]

(* The analyses drawn: levels on both sides of the -12 and -24 LUFS marks,
   crest factors at and on both sides of 4.0, spectral fluxes at and below
   12, low energies below and at 0.4 and above 0.6 (the mid energy is above
   one and a half times the first only), and a spectral balance that is
   empty, that ends before the last band, and that has all fourteen entries. *)
RmsValues == {270, 260, 230, 200, 100, 50}

CrestFactors == {3000, 4000, 4500}

SpectralFluxes == {11000, 12000}

LowEnergies == {300, 400, 700}

MidEnergies == {500}

SpectralBalances ==
  { << >>,
    << 970, 500, 850, 1000, 0, 700, 680, 560, 900 >>,
    << 0, 1000, 840, 790, 750, 710, 400, 850, 540, 1000, 0, 410, 330, 700 >> }

AnalysisResults ==
  [rms : RmsValues, crestFactor : CrestFactors, spectralFlux : SpectralFluxes,
   spectralBalance : SpectralBalances, lowEnergy : LowEnergies,
   midEnergy : MidEnergies]

(* An analysis that changes every band, the compressor and the levels. *)
SampleAnalyses ==
  { a \in AnalysisResults :
      /\ a.rms = 100
      /\ a.crestFactor = 4500
      /\ a.spectralFlux = 11000
      /\ a.lowEnergy = 700
      /\ Len(a.spectralBalance) = Len(DEFAULT_EQ_FREQUENCIES) }

(* One call: the deep copy of DEFAULT_SETTINGS is made, written to and
   returned with the logs. *)
GenerateAiSettings(analysis) ==
  LET gen == allocated + 1
      r == generateAiSettings(analysis,
                              stringify(heap, SettingsRef("DEFAULT_SETTINGS", 0)))
      settings == SettingsRef("generateAiSettings", gen)
      h == parse(r.settings, "generateAiSettings", gen) @@ heap
  IN  /\ allocated < MaxEdits
      /\ heap' = Collect(h, {liveSettings, settings})
      /\ allocated' = gen
      /\ last' = Called("generateAiSettings", 0, "none", "returned", 0,
                        [id |-> "decision", analysis |-> analysis,
                         settings |-> settings, logs |-> r.logs])
      /\ UNCHANGED << audioContext, audioBuffer, sourceNode, nodes, eqNodes,
                      impulseResponseCache, lastDecayValue, startTime, pausedAt,
                      isPlaying, msNodes, connections, staleConnections,
                      pendingLoads, liveSettings, ui >>

(***************************************************************************)
(* The entries of the two curves.  Entry i is computed from                *)
(* x = (i * 2) / n_samples - 1, a multiple of 1/2048 held as its count of  *)
(* 2048ths; entries are thousandths, and so is Math.tanh, of an argument   *)
(* in hundredths.  The divisions round towards 0 on both sides of 0, as    *)
(* the host's arithmetic is the same for x and -x.                         *)
(***************************************************************************)
Sign(x) == IF x < 0 THEN -1 ELSE IF x > 0 THEN 1 ELSE 0

SampledInput(i, n_samples) == (i * 2 * 2048) \div n_samples - 2048

(* Math.tanh by its 5/4 rational approximation, below 0.001 off up to 2.5. *)
tanh(y) ==
  LET a == Abs(y)
      y2 == (a * a) \div 100
      y4 == (y2 * y2) \div 100
  IN  Sign(y) * ((a * (94500 + 105 * y2 + y4) * 10)
                 \div (94500 + 420 * y2 + 15 * y4))

(* curve[i] as the loops of makeDistortionCurve and makeSoftClipCurve set it. *)
curveEntry(curve, i) ==
  LET x == SampledInput(i, curve.n_samples)
  IN  IF curve.table = "distortion"
      THEN IF curve.drive = 0 THEN Sign(x) * ((Abs(x) * 1000) \div 2048)
           ELSE LET drive == curve.drive \div 10
                IN  Sign(x) * (((314 + drive) * Abs(x) * 1000)
                               \div (314 * 2048 + drive * Abs(x)))
      ELSE IF curve.amount = 0 THEN Sign(x) * ((Abs(x) * 1000) \div 2048)
           ELSE LET k == 1000 + curve.amount * 2
                IN  Sign(x) * ((Abs(tanh(Sign(x) * ((k * Abs(x)) \div 20480)))
                                * 1000) \div tanh(k \div 10))

(* WaveShaperNode.curve: the host spreads the entries evenly over the inputs
   -1 .. 1, entry i standing at -1 + 2 * i / (n_samples - 1); here in
   thousandths, rounded as the entries are. *)
AppliedInput(i, n_samples) ==
  Sign(2 * i - (n_samples - 1))
  * ((Abs(2 * i - (n_samples - 1)) * 1000) \div (n_samples - 1))

(* The amounts a curve is made for: 0, 0.01, 0.02, ... *)
Amounts == {10 * a : a \in 0..MaxAmount}

MakeDistortionCurve(amount) ==
  /\ last' = Called("makeDistortionCurve", amount, "none", "returned", 0,
                    [id |-> "curve", curve |-> makeDistortionCurve(amount)])
  /\ UNCHANGED << audioContext, audioBuffer, sourceNode, nodes, eqNodes,
                  impulseResponseCache, lastDecayValue, startTime, pausedAt,
                  isPlaying, msNodes, connections, staleConnections,
                  pendingLoads, heap, liveSettings, allocated, ui >>

MakeSoftClipCurve(amount) ==
  /\ last' = Called("makeSoftClipCurve", amount, "none", "returned", 0,
                    [id |-> "curve", curve |-> makeSoftClipCurve(amount)])
  /\ UNCHANGED << audioContext, audioBuffer, sourceNode, nodes, eqNodes,
                  impulseResponseCache, lastDecayValue, startTime, pausedAt,
                  isPlaying, msNodes, connections, staleConnections,
                  pendingLoads, heap, liveSettings, allocated, ui >>

(***************************************************************************)
(* encodeWAV (App.tsx), for one sample of a channel.  A sample is a        *)
(* float of the rendered buffer, held as its count of 65536ths.  The 16    *)
(* bit path and the 32 bit float path are modelled; a file is read back as *)
(* any reader of the format reads it: 16 bit PCM as value / 32768, format  *)
(* tag 3 as the float stored.                                              *)
(***************************************************************************)
ExportFormats == {"16-Bit PCM", "32-Bit Float"}

(* The samples drawn: -1 .. 1 in steps of 1/16, and the three nearest
   65536ths around -1, -0.5, 0, 0.5 and 1. *)
WavSamples ==
  { m \in -65536..65536 :
      \/ m % 4096 = 0
      \/ \E c \in {-65536, -32768, 0, 32768, 65536} : Abs(m - c) <= 3 }

(* Truncation towards 0, of n / d with d > 0. *)
Trunc(n, d) == Sign(n) * (Abs(n) \div d)

(* The integer part of sample * factor, of a sample in 65536ths (the
   product halved before it is divided, to stay within the integers here). *)
IntegerPart(sample, factor) ==
  Sign(sample)
  * (((Abs(sample) \div 2) * factor + ((Abs(sample) % 2) * factor) \div 2)
     \div 32768)

(* DataView.setInt16 of a number: ToInt16, the integer part modulo 2^16, as
   the two bytes' unsigned value. *)
setInt16(sample, factor) == IntegerPart(sample, factor) % 65536

(* The float32 nearest to a value: 24 significant bits; every count of
   65536ths up to 2^24 is one. *)
ToFloat32(m) == IF Abs(m) < 16777216 THEN m ELSE Trunc(m, 2) * 2

encodeWAV(sample, format) ==
  IF format = "32-Bit Float"
  THEN [formatTag |-> 3, bitDepth |-> 32, data |-> ToFloat32(sample)]
  ELSE LET clamped == Max(-65536, Min(65536, sample))
           factor == IF clamped < 0 THEN 32768 ELSE 32767
       IN  [formatTag |-> 1, bitDepth |-> 16, data |-> setInt16(clamped, factor)]

(* Reading a sample of the file back, in 65536ths. *)
decodeWAV(file) ==
  IF file.formatTag = 3 THEN file.data
  ELSE LET int16 == IF file.data >= 32768 THEN file.data - 65536 ELSE file.data
       IN  int16 * 2

EncodeWAV(sample, format) ==
  /\ last' = Called("encodeWAV", sample, "none", "returned", 0,
                    [id |-> "wav", format |-> format,
                     file |-> encodeWAV(sample, format)])
  /\ UNCHANGED << audioContext, audioBuffer, sourceNode, nodes, eqNodes,
                  impulseResponseCache, lastDecayValue, startTime, pausedAt,
                  isPlaying, msNodes, connections, staleConnections,
                  pendingLoads, heap, liveSettings, allocated, ui >>

ContextStates == {"running", "suspended"}

(***************************************************************************)
(* Spec: the transport.  The clock, the loads and the calls of play, pause *)
(* and seek, in any order.  No transport field reads the impulse noise, so *)
(* Math.random is held to one outcome here; RenderSpec draws all of them.  *)
(***************************************************************************)
Next ==
  \/ Tick
  \/ Resumed
  \/ \E file \in Files, state \in ContextStates : LoadFileBegin(file, state)
  \/ \E file \in Files : LoadFileDone(file)
  \/ \E file \in Files : LoadFileFail(file)
  \/ \E offset \in Offsets, name \in SettingNames : Play(offset, name, 0)
  \/ Pause
  \/ \E time \in Offsets, name \in SettingNames : Seek(time, name, 0)

Spec == Init /\ [][Next]_vars

(***************************************************************************)
(* RenderSpec: the two backends.  Loads, setupGraph, updateSettings, play  *)
(* from the start and offline renders, in any order, with the clock        *)
(* standing still.                                                         *)
(***************************************************************************)
RenderNext ==
  \/ \E file \in Files, state \in ContextStates : LoadFileBegin(file, state)
  \/ \E file \in Files : LoadFileDone(file)
  \/ \E file \in Files : LoadFileFail(file)
  \/ \E name \in SettingNames, noise \in Noises : SetupGraph(name, noise)
  \/ \E name \in SettingNames : UpdateSettings(name)
  \/ \E name \in SettingNames, noise \in Noises : Play(0, name, noise)
  \/ \E name \in SettingNames, noise \in Noises : RenderOffline(name, noise)

RenderSpec == Init /\ [][RenderNext]_vars

(***************************************************************************)
(* ImpulseSpec: the impulse cache.  Loads and impulse requests against the *)
(* live context and against offline contexts, in any order.                *)
(***************************************************************************)
ImpulseNext ==
  \/ \E file \in Files, state \in ContextStates : LoadFileBegin(file, state)
  \/ \E file \in Files : LoadFileDone(file)
  \/ \E file \in Files : LoadFileFail(file)
  \/ \E ctx \in ImpulseContexts, decay \in Decays, noise \in Noises :
       CreateImpulseResponse(ctx, decay, noise)

ImpulseSpec == Init /\ [][ImpulseNext]_vars

(***************************************************************************)
(* SettingsSpec: the live ParameterSet.  The handlers of App that change   *)
(* it, in any order, on an engine that has loaded a file and built a graph *)
(* or has not.                                                             *)
(***************************************************************************)
SettingsNext ==
  \/ \E file \in Files, state \in ContextStates : LoadFileBegin(file, state)
  \/ \E file \in Files : LoadFileDone(file)
  \/ \E file \in Files : LoadFileFail(file)
  \/ SetupGraph("Manual", 0)
  \/ \E key \in NumberKeys, value \in KnobValues : UpdateSetting(key, value)
  \/ \E value \in Ratios : UpdateCompressor("ratio", value)
  \/ HandleExportWAV
  \/ \E index \in EqIndexes, gain \in EqGains : HandleEQChange(index, gain)
  \/ \E name \in PresetNames : ApplyPreset(name)
  \/ \E analysis \in SampleAnalyses : GenerateAiSettings(analysis)

SettingsSpec == Init /\ [][SettingsNext]_vars

(***************************************************************************)
(* AppSpec: the App component driving the engine.  Uploads, the play       *)
(* button, the seek slider and the displayed time, in any order,           *)
(* with the host's clock and its grant of a resume.  While a togglePlay    *)
(* waits for the resume any other handler can run.                         *)
(***************************************************************************)
AppNext ==
  \/ Tick
  \/ \E file \in Files, state \in ContextStates : HandleFileUploadBegin(file, state)
  \/ \E file \in Files : HandleFileUploadDone(file)
  \/ \E file \in Files : HandleFileUploadFail(file)
  \/ TogglePlay
  \/ TogglePlayResumed
  \/ \E time \in Offsets : HandleSeek(time)
  \/ UpdateTime

AppSpec == Init /\ [][AppNext]_vars

(***************************************************************************)
(* PresetSpec: the App component with its presets.  Uploads, the play      *)
(* button, the seek slider and applyPreset, in any order, on a running     *)
(* context with the clock standing still.                                  *)
(***************************************************************************)
PresetNext ==
  \/ \E file \in Files : HandleFileUploadBegin(file, "running")
  \/ \E file \in Files : HandleFileUploadDone(file)
  \/ \E file \in Files : HandleFileUploadFail(file)
  \/ TogglePlay
  \/ \E time \in Offsets : HandleSeek(time)
  \/ \E name \in AppPresetNames : ApplyPreset(name)

PresetSpec == Init /\ [][PresetNext]_vars

(***************************************************************************)
(* RampSpec: the automation.  Loads, setupGraph and updateSettings with    *)
(* each ParameterSet of SettingNames, in any order, while the clock of a   *)
(* running context advances.                                               *)
(***************************************************************************)
RampNext ==
  \/ Tick
  \/ \E file \in Files : LoadFileBegin(file, "running")
  \/ \E file \in Files : LoadFileDone(file)
  \/ \E file \in Files : LoadFileFail(file)
  \/ \E name \in SettingNames : SetupGraph(name, 0)
  \/ \E name \in SettingNames : UpdateSettings(name)

RampSpec == Init /\ [][RampNext]_vars

(***************************************************************************)
(* GraphSpec: the live graph.  loadFile, setupGraph, updateSettings, play, *)
(* pause and seek, in any order, on a running context with the clock       *)
(* standing still.                                                         *)
(***************************************************************************)
GraphNext ==
  \/ \E file \in Files : LoadFileBegin(file, "running")
  \/ \E file \in Files : LoadFileDone(file)
  \/ \E file \in Files : LoadFileFail(file)
  \/ \E name \in SettingNames : SetupGraph(name, 0)
  \/ \E name \in SettingNames : UpdateSettings(name)
  \/ \E offset \in Offsets, name \in SettingNames : Play(offset, name, 0)
  \/ Pause
  \/ \E time \in Offsets, name \in SettingNames : Seek(time, name, 0)

GraphSpec == Init /\ [][GraphNext]_vars

(***************************************************************************)
(* EqSpec: the EQ stack.  One file is loaded; setupGraph, updateSettings   *)
(* and renderOffline get every eq array of EqArrays, in any order.         *)
(***************************************************************************)
EqNext ==
  \/ LoadFileBegin("stereo.mp3", "running")
  \/ LoadFileDone("stereo.mp3")
  \/ LoadFileFail("stereo.mp3")
  \/ \E eq \in EqArrays : SetupGraphWith(eq)
  \/ \E eq \in EqArrays : UpdateSettingsWith(eq)
  \/ \E eq \in EqArrays : RenderOfflineWith(eq)

EqSpec == Init /\ [][EqNext]_vars

(***************************************************************************)
(* AiSpec: generateAiSettings on every analysis of AnalysisResults.        *)
(***************************************************************************)
AiNext == \E analysis \in AnalysisResults : GenerateAiSettings(analysis)

AiSpec == Init /\ [][AiNext]_vars

(***************************************************************************)
(* CurveSpec: the two waveshaper curves, made for every amount of Amounts. *)
(***************************************************************************)
CurveNext ==
  \/ \E amount \in Amounts : MakeDistortionCurve(amount)
  \/ \E amount \in Amounts : MakeSoftClipCurve(amount)

CurveSpec == Init /\ [][CurveNext]_vars

(***************************************************************************)
(* WavSpec: encodeWAV on every sample of WavSamples, in both formats.      *)
(***************************************************************************)
WavNext ==
  \E sample \in WavSamples, format \in ExportFormats : EncodeWAV(sample, format)

WavSpec == Init /\ [][WavNext]_vars

(***************************************************************************)
(* Properties.                                                             *)
(***************************************************************************)
EngineFields ==
  << audioContext, audioBuffer, sourceNode, nodes, eqNodes, impulseResponseCache,
     lastDecayValue, startTime, pausedAt, isPlaying, msNodes, connections,
     staleConnections >>

GraphFields == << nodes, eqNodes, msNodes, connections, staleConnections >>

(* The live graph is the one setupGraph and play build from settings at the
   present instant: every stage is there, the ramps were scheduled now and
   lead to the values of settings, and the chain runs from the source to the
   destination. *)
LiveGraphFrom(settings) ==
  LET now == audioContext.currentTime
      rampedNow(p, target) ==
        /\ Len(p.events) = 1
        /\ p.events[1].startTime = now
        /\ p.events[1].target = target
  IN  /\ \A f \in NodeFields : ~IsNull(nodes[f])
      /\ \A f \in MSLocals : ~IsNull(msNodes[f])
      /\ Len(eqNodes) = Len(settings.eq)
      /\ rampedNow(nodes["gainNode"].gain, 1000 + settings.masterGain)
      /\ rampedNow(nodes["limiterNode"].threshold, settings.ceiling)
      /\ rampedNow(nodes["msSideGainNode"].gain, 1000 + settings.stereoWidth)
      /\ rampedNow(nodes["stereoBassNode"].gain, settings.stereoBass)
      /\ rampedNow(nodes["wetGainNode"].gain, settings.reverb.mix)
      /\ rampedNow(nodes["compressorNode"].threshold, settings.compressor.threshold)
      /\ nodes["reverbNode"].buffer.id = "impulse"
      /\ Abs(nodes["reverbNode"].buffer.decay - settings.reverb.decay) < 10
      /\ \E c \in connections : c[1] = "sourceNode"
      /\ << "analyzerNode", "destination", 0, 0 >> \in connections
      /\ \A c \in connections : c[1] # "sourceNode" => \E d \in connections : d[2] = c[1]

(* C1: with a context and a buffer loaded, play(offset, settings) in any
   transport state rebuilds the graph from settings (one setupGraph), starts a
   new source at offset, records startTime = now - offset and leaves the
   engine Playing; getCurrentTime() is offset at that instant. *)
C1_PlayStartsAtOffset ==
  (last.op = "play" /\ audioContext.id # "none" /\ audioBuffer.id # "none") =>
    /\ last.rebuilds = 1
    /\ LiveGraphFrom(MasteringSettings(last.settings))
    /\ sourceNode.kind = "source"
    /\ sourceNode.buffer = audioBuffer
    /\ sourceNode.started /\ ~sourceNode.stopped
    /\ sourceNode.offset = last.arg
    /\ startTime = audioContext.currentTime - last.arg
    /\ isPlaying
    /\ getCurrentTime(World) = last.arg

(* play at an offset after the start, on a clock that has advanced, over the
   graph of an earlier play. *)
C1_Witness ==
  /\ last.op = "play"
  /\ last.arg > 0
  /\ audioContext.currentTime > 0
  /\ staleConnections # {}
  /\ isPlaying
  /\ startTime = audioContext.currentTime - last.arg

(* C2: pause() while Playing stops the source, stores pausedAt = now -
   startTime and leaves the engine Paused; pause() while Stopped or Paused
   changes none of isPlaying, startTime, pausedAt, the source and the graph. *)
C2_PauseStoresElapsed ==
  [][last'.op = "pause" =>
       IF isPlaying
       THEN /\ sourceNode'.stopped
            /\ pausedAt' = audioContext.currentTime - startTime
            /\ ~isPlaying'
            /\ UNCHANGED << startTime, GraphFields >>
       ELSE UNCHANGED << isPlaying, startTime, pausedAt, sourceNode, GraphFields >>
    ]_vars

(* pause has stopped a source that had played for some time. *)
C2_Witness ==
  /\ last.op = "pause"
  /\ ~isPlaying
  /\ sourceNode.kind = "source" /\ sourceNode.stopped
  /\ pausedAt = audioContext.currentTime - startTime
  /\ pausedAt > sourceNode.offset

(* C3: seek(time, settings) while Playing ends Playing at position time with
   a new source started there, after exactly one graph rebuild; seek while not
   Playing sets pausedAt to time and changes none of isPlaying, startTime, the
   source and the graph. *)
C3_SeekRestartsOrStores ==
  [][last'.op = "seek" =>
       IF isPlaying
       THEN /\ last'.rebuilds = 1
            /\ isPlaying'
            /\ audioContext'.currentTime - startTime' = last'.arg
            /\ pausedAt' = last'.arg
            /\ sourceNode'.started /\ ~sourceNode'.stopped
            /\ sourceNode'.offset = last'.arg
            /\ connections' # {}
       ELSE /\ pausedAt' = last'.arg
            /\ last'.rebuilds = 0
            /\ UNCHANGED << isPlaying, startTime, sourceNode, GraphFields >>
    ]_vars

(* seek has moved a playing engine to another position than the one it was at. *)
C3_Witness ==
  /\ last.op = "seek"
  /\ last.rebuilds = 1
  /\ isPlaying
  /\ last.arg > 0
  /\ audioContext.currentTime > 0
  /\ getCurrentTime(World) = last.arg

(* C4: getCurrentTime() is now - startTime whenever the engine is Playing and
   the stored pausedAt whenever it is not. *)
C4_PositionIsDerived ==
  getCurrentTime(World) =
    IF isPlaying THEN audioContext.currentTime - startTime ELSE pausedAt

(* The engine plays and the clock has moved on since play stored pausedAt:
   the position reported is not the stored one. *)
C4_Witness ==
  /\ isPlaying
  /\ last.op = "tick"
  /\ getCurrentTime(World) # pausedAt
  /\ getCurrentTime(World) = audioContext.currentTime - startTime

(* C5 as stated: renderOffline and play with no buffer loaded both fail with
   an error the caller sees. *)
C5_Original ==
  (last.op \in {"play", "renderOffline"} /\ audioBuffer.id = "none") =>
    last.outcome = "threw"

(* C5, amended: with no buffer loaded renderOffline fails with the error
   "No Audio" and play returns normally; neither changes the engine. *)
C5_NoBufferLoaded ==
  [][audioBuffer.id = "none" =>
       /\ last'.op = "renderOffline" =>
            /\ last'.outcome = "threw"
            /\ last'.result.error = "No Audio"
            /\ UNCHANGED EngineFields
       /\ last'.op = "play" =>
            /\ last'.outcome = "returned"
            /\ UNCHANGED EngineFields
    ]_vars

(* play was called on an engine that has a context and no buffer yet. *)
C5_Witness ==
  /\ last.op = "play"
  /\ audioContext.id = "live"
  /\ audioBuffer.id = "none"
  /\ ~isPlaying
  /\ IsNull(sourceNode)

(* C6: once loadFile has completed the engine is not Playing and its stored
   position, and so getCurrentTime(), is 0. *)
C6_Original ==
  (last.op = "loadFile" /\ last.outcome = "returned") =>
    /\ ~isPlaying
    /\ pausedAt = 0
    /\ getCurrentTime(World) = 0

(* What of a rendered graph reaches its output: the impulse of the reverb
   does not when the wet gain is 0. *)
Signal(graph) ==
  IF graph.nodes["wetGain"].gain.value = 0
  THEN [graph EXCEPT !.nodes["reverb"].buffer = NullBuffer]
  ELSE graph

(* C7: two offline renders of the same loaded buffer with the same
   ParameterSet produce identical output. *)
C7_Original ==
  [][(/\ last.op = "renderOffline" /\ last.outcome = "returned"
      /\ last'.op = "renderOffline" /\ last'.outcome = "returned"
      /\ last'.settings = last.settings
      /\ audioBuffer' = audioBuffer)
       => Signal(last'.result.graph) = Signal(last.result.graph)
    ]_vars

(* The stage that the live graph holds for a stage of the offline graph. *)
LiveField(stage) ==
  CASE stage = "masterGain" -> "gainNode"
    [] stage = "compressor" -> "compressorNode"
    [] stage = "saturation" -> "saturationNode"
    [] stage = "softClip" -> "softClipNode"
    [] stage = "limiter" -> "limiterNode"
    [] stage = "msSideGain" -> "msSideGainNode"
    [] stage = "reverb" -> "reverbNode"
    [] stage = "reverbTone" -> "reverbToneNode"
    [] stage = "wetGain" -> "wetGainNode"
    [] stage = "dryGain" -> "dryGainNode"
    [] stage = "source" -> "sourceNode"
    [] OTHER -> stage

(* A stage as configured: each parameter at the value it settles to; of the
   impulse, what the settings choose (its length and decay). *)
Configured(node) ==
  CASE node.kind = "gain" -> [kind |-> "gain", gain |-> Settled(node.gain)]
    [] node.kind = "biquad" ->
         [kind |-> "biquad", type |-> node.type,
          frequency |-> Settled(node.frequency), Q |-> Settled(node.Q),
          gain |-> Settled(node.gain)]
    [] node.kind = "compressor" ->
         [kind |-> "compressor", threshold |-> Settled(node.threshold),
          knee |-> Settled(node.knee), ratio |-> Settled(node.ratio),
          attack |-> Settled(node.attack), release |-> Settled(node.release)]
    [] node.kind = "convolver" ->
         [kind |-> "convolver", length |-> node.buffer.length,
          decay |-> node.buffer.decay]
    [] OTHER -> node

LiveStages(w) ==
  [stage \in OfflineNodes |->
     Configured(IF stage \in MSLocals THEN w.msNodes[stage]
                ELSE w.nodes[LiveField(stage)])]

(* The live connections under the offline names, the metering tap between
   the limiter and the destination taken out. *)
LiveWiring(w) ==
  LET named == {f \in OfflineNodes \cup {"source"} : LiveField(f) # f}
      offlineName(n) == IF \E f \in named : LiveField(f) = n
                        THEN CHOOSE f \in named : LiveField(f) = n
                        ELSE n
      tap == { << "limiterNode", "analyzerNode", 0, 0 >>,
               << "analyzerNode", "destination", 0, 0 >> }
  IN  {<< offlineName(c[1]), offlineName(c[2]), c[3], c[4] >> :
         c \in w.connections \ tap}
      \cup (IF tap \subseteq w.connections
            THEN {<< "limiter", "destination", 0, 0 >>} ELSE {})

(* C8: for the same ParameterSet the graph wired by renderOffline has the
   same stages, connections and configured values as the graph wired by play,
   the metering tap apart. *)
C8_Original ==
  audioBuffer.id # "none" =>
    \A name \in SettingNames, noise \in Noises :
      LET live == play(World, 0, MasteringSettings(name), noise)
          offline == renderOffline(World, MasteringSettings(name), noise).graph
      IN  /\ LiveStages(live) =
               [stage \in OfflineNodes |-> Configured(offline.nodes[stage])]
          /\ [i \in 1..Len(live.eqNodes) |-> Configured(live.eqNodes[i])] =
               [i \in 1..Len(offline.eqNodes) |-> Configured(offline.eqNodes[i])]
          /\ LiveWiring(live) = offline.connections

LimiterOf(node, settings) ==
  /\ node.kind = "compressor"
  /\ Settled(node.knee) = 0
  /\ Settled(node.attack) = 1
  /\ Settled(node.release) = 100
  /\ Settled(node.ratio) = 20000
  /\ Settled(node.threshold) = settings.ceiling

(* C9: in every graph built by either backend the limiter has knee 0, attack
   0.001 s, release 0.1 s, ratio 20 and threshold settings.ceiling. *)
C9_Original ==
  /\ (last.op \in {"setupGraph", "play"} /\ last.rebuilds = 1) =>
       LimiterOf(nodes["limiterNode"], MasteringSettings(last.settings))
  /\ (last.op = "renderOffline" /\ last.outcome = "returned") =>
       LimiterOf(last.result.graph.nodes["limiter"], MasteringSettings(last.settings))

(* C10 as stated: the rendered buffer has the channel count, the sample rate
   and the frame count of the loaded buffer. *)
C10_Original ==
  (last.op = "renderOffline" /\ last.outcome = "returned") =>
    /\ last.result.buffer.numberOfChannels = audioBuffer.numberOfChannels
    /\ last.result.buffer.sampleRate = audioBuffer.sampleRate
    /\ last.result.buffer.length = audioBuffer.length

(* C10, amended: the rendered buffer has the sample rate and the frame count
   of the loaded buffer, and two channels whatever the loaded buffer has. *)
C10_RenderedShape ==
  (last.op = "renderOffline" /\ last.outcome = "returned") =>
    /\ last.result.buffer.numberOfChannels = 2
    /\ last.result.buffer.sampleRate = audioBuffer.sampleRate
    /\ last.result.buffer.length = audioBuffer.length

(* A mono buffer has been rendered. *)
C10_Witness ==
  /\ last.op = "renderOffline"
  /\ last.outcome = "returned"
  /\ audioBuffer.numberOfChannels = 1
  /\ last.result.buffer.length = audioBuffer.length

(* C11 as stated: of two requests on the live context that follow one
   another with decays less than 0.01 apart, the second returns the buffer
   the first returned; a request on another context, or on the live context
   0.01 or more from the decay of the cached buffer, returns a newly
   synthesized buffer. *)
C11_Original ==
  [][last'.op = "createImpulseResponse" =>
       /\ (/\ last.op = "createImpulseResponse"
           /\ last.result.ctx = "live" /\ last'.result.ctx = "live"
           /\ audioContext' = audioContext
           /\ Abs(last'.arg - last.arg) < 10)
            => /\ ~last'.result.synthesized
               /\ last'.result.buffer = last.result.buffer
       /\ (\/ last'.result.ctx # "live"
           \/ Abs(lastDecayValue - last'.arg) >= 10)
            => last'.result.synthesized
    ]_vars

(* C11, amended: a request on the live context within 0.01 of the decay the
   cached buffer was synthesized with returns the cached buffer and leaves
   the cache alone; every other request returns a newly synthesized buffer of
   the decay asked for, which becomes the cached one exactly when the request
   is on the live context. *)
C11_CacheByCachedDecay ==
  [][last'.op = "createImpulseResponse" =>
       IF /\ last'.result.ctx = "live"
          /\ impulseResponseCache.id # "none"
          /\ Abs(lastDecayValue - last'.arg) < 10
       THEN /\ ~last'.result.synthesized
            /\ last'.result.buffer = impulseResponseCache
            /\ UNCHANGED << impulseResponseCache, lastDecayValue >>
       ELSE /\ last'.result.synthesized
            /\ last'.result.buffer.decay = last'.arg
            /\ IF last'.result.ctx = "live"
               THEN /\ impulseResponseCache' = last'.result.buffer
                    /\ lastDecayValue' = last'.arg
               ELSE UNCHANGED << impulseResponseCache, lastDecayValue >>
    ]_vars

(* A request on the live context got the cached buffer although the decay
   asked for is not the decay the buffer was synthesized with. *)
C11_Witness ==
  /\ last.op = "createImpulseResponse"
  /\ last.result.ctx = "live"
  /\ ~last.result.synthesized
  /\ last.result.buffer = impulseResponseCache
  /\ last.result.buffer.decay # last.arg

(* The objects of the library: those of DEFAULT_SETTINGS and of the presets. *)
LibraryObjects == UNION { Parts(heap, root) : root \in LibraryRoots }

(* C12: DEFAULT_SETTINGS and every PRESETS entry hold their initial values
   whatever handlers have run, and the live ParameterSet that applyPreset
   has produced has the preset's values and shares no object with the
   library. *)
C12_PresetsAreCopied ==
  /\ stringify(heap, SettingsRef("DEFAULT_SETTINGS", 0)) = DEFAULT_SETTINGS
  /\ \A name \in PresetNames :
       stringify(heap, PRESETS(name).settings) = PresetSettings(name)
  /\ \A r \in DOMAIN Library : heap[r] = Library[r]
  /\ last.op = "applyPreset" =>
       /\ stringify(heap, liveSettings) = PresetSettings(last.settings)
       /\ Parts(heap, liveSettings) \cap LibraryObjects = {}

(* A preset has been applied after earlier edits of the live ParameterSet. *)
C12_Witness ==
  /\ last.op = "applyPreset"
  /\ last.settings = "Pop"
  /\ allocated >= 2
  /\ stringify(heap, liveSettings) = PopSettings
  /\ liveSettings \notin LibraryObjects

(* The ParameterSet that the step just taken gave to the engine. *)
GivenSettings ==
  IF last.op \in {"updateSetting", "handleEQChange", "applyPreset", "handleExportWAV"}
  THEN stringify(heap, liveSettings)
  ELSE MasteringSettings(last.settings)

(* C13: the ratio that setupGraph, updateSettings and renderOffline give to
   the compressor stage is max(1, settings.compressor.ratio), and the call
   returns. *)
C13_RatioClamped ==
  /\ (/\ last.op \in {"setupGraph", "updateSetting", "handleEQChange", "applyPreset"}
      /\ ~IsNull(nodes["compressorNode"]))
       => /\ Settled(nodes["compressorNode"].ratio)
               = Max(1000, GivenSettings.compressor.ratio)
          /\ Settled(nodes["compressorNode"].ratio) >= 1000
          /\ last.outcome = "returned"
  /\ (last.op = "handleExportWAV" /\ audioBuffer.id # "none")
       => /\ last.outcome = "returned"
          /\ Settled(last.result.graph.nodes["compressor"].ratio)
               = Max(1000, GivenSettings.compressor.ratio)
          /\ Settled(last.result.graph.nodes["compressor"].ratio) >= 1000

(* A ratio below 1 and above 0 was set on the knob and has been rendered, on
   an engine whose live compressor was given it too. *)
C13_Witness ==
  /\ last.op = "handleExportWAV"
  /\ last.outcome = "returned"
  /\ stringify(heap, liveSettings).compressor.ratio = 500
  /\ Settled(last.result.graph.nodes["compressor"].ratio) = 1000
  /\ ~IsNull(nodes["compressorNode"])
  /\ Settled(nodes["compressorNode"].ratio) = 1000

(* The place of band k of an eq array in frequency order, bands of one
   frequency in the order of the array. *)
Rank(eq, k) ==
  1 + Cardinality({ j \in 1..Len(eq) :
                      \/ eq[j].frequency < eq[k].frequency
                      \/ eq[j].frequency = eq[k].frequency /\ j < k })

Ascending(stages) ==
  \A i, j \in 1..Len(stages) :
    i < j => stages[i].frequency.value <= stages[j].frequency.value

(* stages is the filter list of eq: one stage per band, at the band's place
   in frequency order, with the band's frequency and gain. *)
StagesOf(stages, eq) ==
  /\ Len(stages) = Len(eq)
  /\ Ascending(stages)
  /\ \A k \in 1..Len(eq) :
       /\ stages[Rank(eq, k)].frequency.value = eq[k].frequency
       /\ Settled(stages[Rank(eq, k)].gain) = eq[k].gain

(* The first stage a low shelf, the last of two or more a high shelf, the
   others peaking. *)
Shelved(stages) ==
  \A i \in 1..Len(stages) :
    stages[i].type = IF i = 1 THEN "lowshelf"
                     ELSE IF i = Len(stages) THEN "highshelf"
                     ELSE "peaking"

(* C14 as stated: for an eq array of any length the filter list is in
   ascending order of frequency, its first stage a low shelf, its last a high
   shelf, the others peaking; updateSettings gives the gain of each band to
   the stage at the band's place in frequency order. *)
C14_Original ==
  LET shaped(stages) ==
        \A i \in 1..Len(stages) :
          /\ i = 1 => stages[i].type = "lowshelf"
          /\ i = Len(stages) => stages[i].type = "highshelf"
          /\ (i # 1 /\ i # Len(stages)) => stages[i].type = "peaking"
  IN  /\ (last.op = "setupGraph" /\ last.rebuilds = 1) =>
           StagesOf(eqNodes, last.result.eq) /\ shaped(eqNodes)
      /\ (last.op = "renderOffline" /\ last.outcome = "returned") =>
           /\ StagesOf(last.result.graph.eqNodes, last.result.eq)
           /\ shaped(last.result.graph.eqNodes)
      /\ (last.op = "updateSettings" /\ audioContext.id # "none") =>
           \A k \in 1..Len(last.result.eq) :
             Rank(last.result.eq, k) <= Len(eqNodes) =>
               Settled(eqNodes[Rank(last.result.eq, k)].gain)
                 = last.result.eq[k].gain

(* C14, amended: the filter list of the live graph and of every offline
   graph is in ascending order of frequency; its first stage is a low shelf,
   its last a high shelf when there are two stages or more, the others
   peaking.  updateSettings gives the gain of a band to the stage at the
   band's place in frequency order when the graph has a stage at that place. *)
C14_EqOrdering ==
  /\ Ascending(eqNodes) /\ Shelved(eqNodes)
  /\ (last.op = "setupGraph" /\ last.rebuilds = 1) =>
       StagesOf(eqNodes, last.result.eq)
  /\ (last.op = "renderOffline" /\ last.outcome = "returned") =>
       /\ StagesOf(last.result.graph.eqNodes, last.result.eq)
       /\ Shelved(last.result.graph.eqNodes)
  /\ (last.op = "updateSettings" /\ audioContext.id # "none") =>
       \A k \in 1..Len(last.result.eq) :
         Rank(last.result.eq, k) <= Len(eqNodes) =>
           Settled(eqNodes[Rank(last.result.eq, k)].gain)
             = last.result.eq[k].gain

(* updateSettings was given three bands out of frequency order on a graph of
   three stages: the gain of the first band of the array went to the last
   stage. *)
C14_Witness ==
  /\ last.op = "updateSettings"
  /\ Len(last.result.eq) = 3
  /\ Len(eqNodes) = 3
  /\ eqNodes[2].type = "peaking"
  /\ last.result.eq[1].frequency > last.result.eq[2].frequency
  /\ Rank(last.result.eq, 1) = 3
  /\ Settled(eqNodes[3].gain) = last.result.eq[1].gain

(***************************************************************************)
(* generateAiSettings: what a call returned.                               *)
(***************************************************************************)
Decided == last.op = "generateAiSettings"

Analysed == last.result.analysis

Output == stringify(heap, last.result.settings)

DefaultValue == stringify(heap, SettingsRef("DEFAULT_SETTINGS", 0))

(* The target the loudness rule names for an estimate. *)
NamedTarget(est) ==
  IF est > -12000 THEN est ELSE IF est < -24000 THEN -13000 ELSE -10000

(* C15: generateAiSettings takes estimatedLUFS as targetLUFS when it is above
   -12, -13.0 when it is below -24 and -10.0 otherwise, gainNeeded is
   targetLUFS - estimatedLUFS, and whenever gainNeeded <= 0.5 the output has
   masterGain 0.0 and softClip 0.05 with ceiling and compressor as in
   DEFAULT_SETTINGS. *)
C15_LoudnessTarget ==
  Decided =>
    /\ targetLUFS(Analysed) = NamedTarget(estimatedLUFS(Analysed))
    /\ gainNeeded(Analysed) = targetLUFS(Analysed) - estimatedLUFS(Analysed)
    /\ gainNeeded(Analysed) <= 500 =>
          /\ Output.masterGain = 0
          /\ Output.softClip = 50
          /\ Output.ceiling = DefaultValue.ceiling
          /\ Output.compressor = DefaultValue.compressor

C15_Witness ==
  /\ Decided
  /\ estimatedLUFS(Analysed) > -12000
  /\ gainNeeded(Analysed) = 0
  /\ Output.masterGain = 0
  /\ Output.softClip = 50
  /\ Output.compressor = DEFAULT_SETTINGS.compressor

(* What the loudness rule names for a gainNeeded above 0.5. *)
Bounded(x, low, high) == IF x < low THEN low ELSE IF x > high THEN high ELSE x

NamedLinearGainDb(analysis) == Min(gainNeeded(analysis), 4000)

NamedSaturatorGainDb(analysis) ==
  Max(0, gainNeeded(analysis) - NamedLinearGainDb(analysis))

(* clamp(saturatorGainDb * 0.08, 0, 0.4), plus 0.1 on a crest factor above
   4.0; in millionths. *)
NamedSoftClip(analysis) ==
  Bounded(NamedSaturatorGainDb(analysis) * 80, 0, 400000)
  + (IF analysis.crestFactor > 4000 THEN 100000 ELSE 0)

CompressorOverride ==
  [threshold |-> -16000, ratio |-> 2000, attack |-> 10, release |-> 150]

LoudnessLine == last.result.logs[Len(last.result.logs)]

(* All of the rule but the value of softClip. *)
Loudened ==
  /\ LoudnessLine.values = << Round(NamedLinearGainDb(Analysed), 100),
                              Round(NamedSaturatorGainDb(Analysed), 100) >>
  /\ Output.masterGain =
       Bounded(Pow10(NamedLinearGainDb(Analysed)) - 1000, 0, 800)
  /\ Output.ceiling = -300
  /\ Output.compressor = IF gainNeeded(Analysed) > 3000 THEN CompressorOverride
                         ELSE DefaultValue.compressor
  /\ (estimatedLUFS(Analysed) = -20600 /\ Analysed.crestFactor = 3000) =>
       /\ gainNeeded(Analysed) = 10600
       /\ LoudnessLine.values = << 4000, 6600 >>
       /\ Output.softClip = 400
       /\ Output.compressor = CompressorOverride

(* C16 as stated: whenever gainNeeded > 0.5 the output has linearGainDb =
   min(gainNeeded, 4.0), saturatorGainDb = max(0, gainNeeded - linearGainDb),
   masterGain = clamp(10^(linearGainDb/20) - 1, 0, 0.8), ceiling -0.3, the
   compressor override exactly when gainNeeded > 3, and softClip equal to
   clamp(saturatorGainDb * 0.08, 0, 0.4) plus 0.1 when crestFactor > 4.0. *)
C16_Original ==
  (Decided /\ gainNeeded(Analysed) > 500) =>
    /\ Loudened
    /\ Output.softClip * 1000 = NamedSoftClip(Analysed)

(* C16: as stated, except that softClip is the named amount rounded to two
   decimals: a multiple of 0.01 no further than 0.005 from it. *)
C16_LoudnessGain ==
  (Decided /\ gainNeeded(Analysed) > 500) =>
    /\ Loudened
    /\ Output.softClip % 10 = 0
    /\ Abs(Output.softClip * 1000 - NamedSoftClip(Analysed)) <= 5000

C16_Witness ==
  /\ Decided
  /\ estimatedLUFS(Analysed) = -20600
  /\ Analysed.crestFactor = 3000
  /\ gainNeeded(Analysed) = 10600
  /\ Output.masterGain = 585
  /\ Output.softClip = 400
  /\ Output.compressor = CompressorOverride

(* The gain the curve-matching rule names for band i (from 1) of the output:
   (actual - target) * -12.0 within 3 dB, or within 4 dB above 8000 Hz. *)
NamedEqGain(analysis, band, i) ==
  LET limit == IF band.frequency > 8000 THEN 4000 ELSE 3000
  IN  Bounded((analysis.spectralBalance[i] - targetCurve[i]) * (-12),
              -limit, limit)

(* C17: for every analysis and every band that has a spectralBalance entry,
   the eq gain of the output is (actual - target) * -12.0 with the target of
   the fixed fourteen-entry descending curve, clamped to [-3, 3] dB for a band
   frequency up to 8000 Hz and to [-4, 4] dB above it, rounded to 0.1 dB (a
   multiple of 0.1 no further than 0.05 from it); a band without an entry
   keeps gain 0; no band changes its frequency. *)
C17_CurveMatching ==
  Decided =>
    /\ Len(Output.eq) = Len(DEFAULT_EQ_FREQUENCIES)
    /\ Len(targetCurve) = Len(DEFAULT_EQ_FREQUENCIES)
    /\ \A i \in 1..Len(targetCurve) - 1 : targetCurve[i] > targetCurve[i + 1]
    /\ \A i \in 1..Len(Output.eq) :
         /\ Output.eq[i].frequency = DEFAULT_EQ_FREQUENCIES[i]
         /\ IF i <= Len(Analysed.spectralBalance)
            THEN /\ Output.eq[i].gain % 100 = 0
                 /\ Abs(Output.eq[i].gain
                        - NamedEqGain(Analysed, Output.eq[i], i)) <= 50
            ELSE Output.eq[i].gain = 0

C17_Witness ==
  /\ Decided
  /\ Len(Analysed.spectralBalance) = 9
  /\ Output.eq[1].gain = -200
  /\ Output.eq[2].gain = 3000
  /\ Output.eq[7].gain = -400
  /\ Output.eq[8].gain = 500
  /\ Output.eq[9].frequency = 8000
  /\ Output.eq[9].gain = -3000
  /\ Output.eq[10].gain = 0

LogTags == [i \in 1..Len(last.result.logs) |-> last.result.logs[i].tag]

When(condition, tag) == IF condition THEN << tag >> ELSE << >>

(* C18: the log returned by generateAiSettings lists, in this order, the
   analysis-complete, musical-context, signal-path and EQ lines, the low-end
   line exactly when lowEnergy < 0.4, the color line exactly when
   spectralFlux < 12, the dynamics line exactly when gainNeeded > 0.5 and
   crestFactor > 4.0, and last exactly one loudness line. *)
C18_LogOrder ==
  Decided =>
    LogTags =
      << "ANALYSIS COMPLETE", "MUSICAL CONTEXT", "SIGNAL PATH", "EQ" >>
      \o When(Analysed.lowEnergy < 400, "LOW END")
      \o When(Analysed.spectralFlux < 12000, "COLOR")
      \o When(gainNeeded(Analysed) > 500 /\ Analysed.crestFactor > 4000,
              "DYNAMICS")
      \o << "LOUDNESS" >>

C18_Witness ==
  /\ Decided
  /\ Analysed.lowEnergy < 400
  /\ Analysed.spectralFlux < 12000
  /\ Analysed.crestFactor > 4000
  /\ gainNeeded(Analysed) > 500
  /\ Len(last.result.logs) = 8
  /\ LogTags[5] = "LOW END"
  /\ LogTags[8] = "LOUDNESS"

(***************************************************************************)
(* The mid/side section as the host runs it.  Samples are millionths of    *)
(* full scale.  A gain stage multiplies the sum of what is connected to    *)
(* its input by the value its gain settles to, a low shelf multiplies what *)
(* lies below its corner by 10^(dB/20), output k of the splitter carries   *)
(* channel k, and input k of the merger is channel k of what leaves it.    *)
(***************************************************************************)
Samples == {-1000000, 0, 500000, 1000000}

RECURSIVE Carried(_, _, _, _, _, _)
RECURSIVE Summed(_, _, _, _, _)

Carried(stages, wiring, stage, output, L, R) ==
  IF stages[stage].kind = "splitter" THEN (IF output = 0 THEN L ELSE R)
  ELSE
    LET input == Summed(stages, wiring,
                        {c \in wiring : c[2] = stage /\ c[4] = 0}, L, R)
    IN  IF stages[stage].kind = "gain"
        THEN (input * stages[stage].gain) \div 1000
        ELSE (input * Pow10(stages[stage].gain)) \div 1000

Summed(stages, wiring, feeds, L, R) ==
  IF feeds = {} THEN 0
  ELSE LET c == CHOOSE c \in feeds : TRUE
       IN  Carried(stages, wiring, c[1], c[3], L, R)
           + Summed(stages, wiring, feeds \ {c}, L, R)

MergerOut(stages, wiring, channel, L, R) ==
  Summed(stages, wiring,
         {c \in wiring : c[2] = "merger" /\ c[4] = channel}, L, R)

(* The section splits into mid and side and gives back what it was given. *)
MidSideIdentity(stages, wiring) ==
  \A L \in Samples, R \in Samples :
    /\ 2 * Carried(stages, wiring, "midChannel", 0, L, R) = L + R
    /\ 2 * Carried(stages, wiring, "sideChannel", 0, L, R) = L - R
    /\ MergerOut(stages, wiring, 0, L, R) = L
    /\ MergerOut(stages, wiring, 1, L, R) = R
    /\ MergerOut(stages, wiring, 0, L, R) =
         Carried(stages, wiring, "outL_Mid", 0, L, R)
         + Carried(stages, wiring, "outL_Side", 0, L, R)
    /\ Carried(stages, wiring, "outL_Mid", 0, L, R)
         = Carried(stages, wiring, "midChannel", 0, L, R)

Unwidened(name) ==
  /\ MasteringSettings(name).stereoWidth = 0
  /\ MasteringSettings(name).stereoBass = 0

(* The live graph is wired and its stages are set from the settings of the
   call just made. *)
LiveWired ==
  /\ last.op \in {"play", "updateSettings"}
  /\ connect("airNode", "splitter", 0, 0) \in connections

OfflineStages ==
  [stage \in OfflineNodes |-> Configured(last.result.graph.nodes[stage])]

(* C19: with stereoWidth = 0 and stereoBass = 0 the mid/side section of the
   live graph and of the offline graph has mid = 0.5 * (L + R), side =
   0.5 * (L - R), and puts mid + side = L and mid - side = R on the two
   channels of its output, for every pair (L, R). *)
C19_MidSideIdentity ==
  /\ (LiveWired /\ Unwidened(last.settings)) =>
       MidSideIdentity(LiveStages(World), LiveWiring(World))
  /\ (last.op = "renderOffline" /\ last.outcome = "returned"
      /\ Unwidened(last.settings)) =>
       MidSideIdentity(OfflineStages, last.result.graph.connections)

(* updateSettings has taken a widened playing graph back to width 0. *)
C19_Witness ==
  /\ last.op = "updateSettings"
  /\ Unwidened(last.settings)
  /\ connect("airNode", "splitter", 0, 0) \in connections
  /\ nodes["msSideGainNode"].gain.value = 1500
  /\ MergerOut(LiveStages(World), LiveWiring(World), 0, 1000000, -1000000)
       = 1000000
  /\ MergerOut(LiveStages(World), LiveWiring(World), 1, 1000000, -1000000)
       = -1000000

CurveMade == last.op \in {"makeDistortionCurve", "makeSoftClipCurve"}

Entries == 0..(last.result.curve.n_samples - 1)

(* C20 as stated: for both 4096-entry curves and every amount, every sampled
   input x has the table's value at -x equal to the negation of its value at
   x, and the value at x = 0 is exactly 0. *)
C20_Original ==
  CurveMade =>
    \A i \in Entries :
      /\ \E j \in Entries :
           /\ SampledInput(j, last.result.curve.n_samples)
                = -SampledInput(i, last.result.curve.n_samples)
           /\ curveEntry(last.result.curve, j) = -curveEntry(last.result.curve, i)
      /\ SampledInput(i, last.result.curve.n_samples) = 0 =>
           curveEntry(last.result.curve, i) = 0

(* C21 as stated: with amount = 0 the saturation curve and the soft-clip
   curve are the identity over the inputs -1 .. 1: every table entry equals
   the input value it is applied to. *)
C21_Original ==
  (CurveMade /\ last.arg = 0) =>
    \A i \in Entries :
      curveEntry(last.result.curve, i)
        = AppliedInput(i, last.result.curve.n_samples)

Encoded == last.op = "encodeWAV"

(* C22 as stated: a sample of [-1, 1] encoded to 16 bit PCM by encodeWAV and
   decoded is within 1/32768 of the sample, and encoded as 32 bit float and
   decoded it is the sample exactly. *)
C22_Original ==
  Encoded =>
    IF last.result.format = "32-Bit Float"
    THEN decodeWAV(last.result.file) = last.arg
    ELSE Abs(decodeWAV(last.result.file) - last.arg) <= 2

(* C23 as stated: a rebuild disconnects every stage the previous build wired,
   the mid/side stages that play created included, before it constructs new
   ones, so that after any sequence of setupGraph, play, pause and seek no
   stage of an earlier build keeps a connection. *)
C23_Original == staleConnections = {}

(* The place of the first step of a kind in the steps of the call just made,
   and 0 when there is none. *)
FirstStep(kind) ==
  LET at == {k \in 1..Len(last.result.steps) : last.result.steps[k] = kind}
  IN  IF at = {} THEN 0 ELSE CHOOSE k \in at : \A j \in at : k <= j

LastStep(kind) ==
  LET at == {k \in 1..Len(last.result.steps) : last.result.steps[k] = kind}
  IN  IF at = {} THEN 0 ELSE CHOOSE k \in at : \A j \in at : k >= j

(* C24 as stated: in every play, and every seek while Playing, the old stages
   are detached and the new stages wired from source to output before the
   source is started and before any parameter automation is issued against
   the new stages. *)
C24_Original ==
  (last.op \in {"play", "seek"} /\ last.rebuilds = 1) =>
    /\ FirstStep("disconnect") > 0
    /\ LastStep("disconnect") < FirstStep("connect")
    /\ LastStep("connect") < FirstStep("start")
    /\ LastStep("connect") < FirstStep("setTargetAtTime")

(***************************************************************************)
(* The rebuild triggers of the App component.                              *)
(***************************************************************************)
LiveDecay == stringify(heap, liveSettings).reverb.decay

(* The transport triggers: a finished upload, a togglePlay that plays and a
   handleSeek while Playing each run one setupGraph. *)
TransportRebuilds ==
  [][/\ (last'.op = "handleFileUpload" /\ last'.outcome = "returned") =>
          last'.rebuilds = 1
     /\ (last'.op = "togglePlay" /\ ~audioState.isPlaying) =>
          last'.rebuilds = 1
     /\ (last'.op = "handleSeek" /\ isPlaying) => last'.rebuilds = 1
    ]_vars

(* C25: a graph rebuild (setupGraph) happens on every new buffer load, on
   every play and every seek while Playing, and on every preset application
   that changes a value only a rebuild applies to the live graph, such as the
   reverb decay that selects the impulse response. *)
C25_Original ==
  [][/\ (last'.op = "handleFileUpload" /\ last'.outcome = "returned") =>
          last'.rebuilds = 1
     /\ (last'.op = "togglePlay" /\ ~audioState.isPlaying) =>
          last'.rebuilds = 1
     /\ (last'.op = "handleSeek" /\ isPlaying) => last'.rebuilds = 1
     /\ (/\ last'.op = "applyPreset"
         /\ nodes["reverbNode"] # NullNode
         /\ stringify(heap', liveSettings').reverb.decay # LiveDecay) =>
          /\ last'.rebuilds = 1
          /\ nodes'["reverbNode"].buffer.decay =
               stringify(heap', liveSettings').reverb.decay
    ]_vars

(***************************************************************************)
(* The automation of updateSettings.                                       *)
(***************************************************************************)
(* The scalar parameters of the stages held in fields, and the target each
   gets from a ParameterSet. *)
ScalarTargets(settings) ==
  { << "gainNode", "gain", 1000 + settings.masterGain >>,
    << "compressorNode", "threshold", settings.compressor.threshold >>,
    << "compressorNode", "ratio",
       IF settings.compressor.ratio < 1000 THEN 1000
       ELSE settings.compressor.ratio >>,
    << "compressorNode", "attack", settings.compressor.attack >>,
    << "compressorNode", "release", settings.compressor.release >>,
    << "airNode", "gain", settings.air >>,
    << "bodyNode", "gain", settings.body >>,
    << "dynamicBassNode", "gain", settings.dynamicBass >>,
    << "limiterNode", "threshold", settings.ceiling >>,
    << "msSideGainNode", "gain", 1000 + settings.stereoWidth >>,
    << "stereoBassNode", "gain", settings.stereoBass >>,
    << "wetGainNode", "gain", settings.reverb.mix >>,
    << "dryGainNode", "gain", 1000 - settings.reverb.mix >> }

(* q is p after one cancel-and-approach at now: the value is untouched, what
   was scheduled at now or later is gone, and the last event is the
   exponential approach to target with time constant 0.05 s. *)
Approaches(p, q, target, now) ==
  /\ q.value = p.value
  /\ Len(q.events) >= 1
  /\ q.events[Len(q.events)] =
       [type |-> "setTarget", target |-> target, startTime |-> now,
        timeConstant |-> 50]
  /\ SubSeq(q.events, 1, Len(q.events) - 1) =
       SelectSeq(p.events, LAMBDA ev : ev.startTime < now)
  /\ Settled(q) = target

Built == \A f \in NodeFields : nodes[f] # NullNode

(* The bands of a ParameterSet in the order updateSettings pairs them with
   the stages. *)
RECURSIVE Ordered(_)
Ordered(eq) ==
  IF eq = << >> THEN << >>
  ELSE LET low == CHOOSE i \in 1..Len(eq) :
                    \A j \in 1..Len(eq) :
                      \/ eq[i].frequency < eq[j].frequency
                      \/ eq[i].frequency = eq[j].frequency /\ i <= j
           rest == [k \in 1..(Len(eq) - 1) |-> IF k < low THEN eq[k] ELSE eq[k + 1]]
       IN  << eq[low] >> \o Ordered(rest)

(* C26 as stated: on a built live graph updateSettings gives every scalar
   stage parameter, every EQ band gain among them, a cancel followed by an
   exponential approach to the new target with time constant 0.05 s and
   assigns none directly, and replaces the two curve tables at once; without
   a context or without built stages it changes nothing. *)
C26_Original ==
  [][last'.op = "updateSettings" =>
       LET settings == MasteringSettings(last'.settings)
           now == audioContext.currentTime
           bands == Ordered(settings.eq)
       IN  IF audioContext.id = "none" \/ ~Built
           THEN UNCHANGED EngineFields
           ELSE /\ \A t \in ScalarTargets(settings) :
                     Approaches(nodes[t[1]][t[2]], nodes'[t[1]][t[2]], t[3], now)
                /\ Len(eqNodes') = Len(eqNodes)
                /\ Len(bands) = Len(eqNodes)
                /\ \A index \in 1..Len(eqNodes) :
                     Approaches(eqNodes[index].gain, eqNodes'[index].gain,
                                bands[index].gain, now)
                /\ nodes'["saturationNode"].curve =
                     makeDistortionCurve(settings.saturation)
                /\ nodes'["softClipNode"].curve =
                     makeSoftClipCurve(settings.softClip)
    ]_vars

(* C26: as above, for every EQ position that has both a band in the new
   ParameterSet and a stage in the built graph; a stage without a band keeps
   its gain parameter as it was. *)
C26_RampedUpdates ==
  [][last'.op = "updateSettings" =>
       LET settings == MasteringSettings(last'.settings)
           now == audioContext.currentTime
           bands == Ordered(settings.eq)
       IN  IF audioContext.id = "none" \/ ~Built
           THEN UNCHANGED EngineFields
           ELSE /\ \A t \in ScalarTargets(settings) :
                     Approaches(nodes[t[1]][t[2]], nodes'[t[1]][t[2]], t[3], now)
                /\ Len(eqNodes') = Len(eqNodes)
                /\ \A index \in 1..Len(eqNodes) :
                     IF index <= Len(bands)
                     THEN Approaches(eqNodes[index].gain, eqNodes'[index].gain,
                                     bands[index].gain, now)
                     ELSE eqNodes'[index] = eqNodes[index]
                /\ \A index \in 1..Len(eqNodes) :
                     /\ eqNodes'[index].type = eqNodes[index].type
                     /\ eqNodes'[index].frequency = eqNodes[index].frequency
                /\ nodes'["saturationNode"].curve =
                     makeDistortionCurve(settings.saturation)
                /\ nodes'["softClipNode"].curve =
                     makeSoftClipCurve(settings.softClip)
                /\ UNCHANGED << audioContext, audioBuffer, sourceNode, startTime,
                                pausedAt, isPlaying, msNodes, connections,
                                staleConnections, impulseResponseCache,
                                lastDecayValue >>
    ]_vars

(* An update after the clock has moved on: the approach of the build stays in
   the timeline, the new one follows it and is the one the gain settles to. *)
C26_Witness ==
  /\ last.op = "updateSettings"
  /\ last.settings = "Tweaked"
  /\ Built
  /\ Len(nodes["wetGainNode"].gain.events) = 2
  /\ Settled(nodes["wetGainNode"].gain) = 300
  /\ nodes["wetGainNode"].gain.value # 300

(***************************************************************************)
(* Signal paths of the live graph.                                         *)
(***************************************************************************)
Successors(conns, from) == { c[2] : c \in { d \in conns : d[1] \in from } }

RECURSIVE ReachableFrom(_, _)
ReachableFrom(conns, from) ==
  LET next == from \cup Successors(conns, from)
  IN  IF next = from THEN from ELSE ReachableFrom(conns, next)

(* The stages of the current build. *)
Stages ==
  NodeFields \cup { EqNode(i) : i \in 1..Len(eqNodes) } \cup DOMAIN msNodes

(* C27: after any sequence of loadFile, setupGraph, updateSettings, play,
   pause and seek, nothing of an earlier build has a path to the output, and
   the only source with a path to the output is the started source of the
   last play, whose signal passes through every stage of the current build,
   over connections of that build alone, without a loop and with one
   connection out of the source and one into the output. *)
C27_SinglePath ==
  /\ \A c \in staleConnections :
       "destination" \notin ReachableFrom(staleConnections, {c[1]})
  /\ connections # {} =>
       /\ sourceNode # NullNode /\ sourceNode.started
       /\ Cardinality({ c \in connections : c[1] = "sourceNode" }) = 1
       /\ Cardinality({ c \in connections : c[2] = "destination" }) = 1
       /\ \A c \in connections :
            /\ c[1] \in Stages \cup {"sourceNode"}
            /\ c[2] \in Stages \cup {"destination"}
       /\ \A stage \in Stages :
            /\ stage \in ReachableFrom(connections, {"sourceNode"})
            /\ "destination" \in ReachableFrom(connections, {stage})
            /\ stage \notin
                 ReachableFrom(connections, Successors(connections, {stage}))

(* A second play on a playing engine: the first play's mid/side connections
   are stale, and the new source is the one wired to the output. *)
C27_Witness ==
  /\ last.op \in {"play", "seek"}
  /\ staleConnections # {}
  /\ connections # {}
  /\ sourceNode.started /\ ~sourceNode.stopped
  /\ "destination" \in ReachableFrom(connections, {"sourceNode"})

(***************************************************************************)
(* Sources that play at once.                                              *)
(***************************************************************************)
(* The source of the last play is sounding: started, not stopped, and not
   yet at the end of its buffer. *)
Sounding ==
  /\ sourceNode # NullNode
  /\ sourceNode.started
  /\ ~sourceNode.stopped
  /\ audioContext.currentTime - startTime < sourceNode.buffer.duration

(* C28: whenever a handler starts a new source, the source started before it
   is no longer sounding or has been stopped first: a stop lies between any
   two starts a handler makes, and before its first start unless no source
   was sounding when it began.  There are never two started, unstopped
   sources at the same time. *)
C28_Original ==
  [][last'.result.id = "steps" =>
       LET steps == last'.result.steps
           stopped(i, j) == \E k \in (i + 1)..(j - 1) : steps[k] = "stop"
       IN  \A j \in 1..Len(steps) :
             steps[j] = "start" =>
               /\ \A i \in 1..(j - 1) : steps[i] = "start" => stopped(i, j)
               /\ Sounding => stopped(0, j)
    ]_vars

(***************************************************************************)
(* The App component and the engine.                                       *)
(***************************************************************************)
(* No handler of App is waiting for a decode or for a resume. *)
Quiescent == pendingLoads = {} /\ pendingToggles = << >>

(* C29: under any interleaving of file upload, togglePlay and seek, once no
   asynchronous step is pending audioState.isPlaying equals the engine's
   isPlaying, and an engine that reports Playing has its started source
   connected to the output. *)
C29_Original ==
  /\ Quiescent => audioState.isPlaying = isPlaying
  /\ isPlaying =>
       /\ sourceNode # NullNode /\ sourceNode.started
       /\ "destination" \in ReachableFrom(connections, {"sourceNode"})

(***************************************************************************)
(* The reported position and the end of the track.                         *)
(***************************************************************************)
(* C30: while a buffer is loaded, getCurrentTime() never exceeds
   getDuration(): the engine leaves Playing when the source reaches the end
   of the buffer, so the reported position stops at the end of the track. *)
C30_Original ==
  audioBuffer.id # "none" => getCurrentTime(World) <= getDuration(World)

====
